---- MODULE Spec2Model ----
(***************************************************************************)
(* A model of WebASTParser: the stream matchers (ExpressionMatcher,        *)
(* StringExpressionMatcher, BracesMatcher), the character-fed lexical      *)
(* tokenizer (AbstractTokenizer with the TypeScript lexer), the grammar   *)
(* driven parse driver (AbstractParser) building the tree of SyntaxNodes,  *)
(* and the faithful tree tokenizer (ASTGenericTokenizer /                  *)
(* ASTFaithfulTokenizer).                                                  *)
(*                                                                         *)
(* Each component has its own specification (SpecEM, SpecBM, SpecTok,      *)
(* SpecParse); the variables of the other components stay at their idle   *)
(* values.                                                                 *)
(***************************************************************************)
EXTENDS Integers, Sequences, FiniteSets, TLC

VARIABLES
    \* ---- ExpressionMatcher / StringExpressionMatcher
    emKind,      \* which class: "ExpressionMatcher" or "StringExpressionMatcher"
    emExprs,     \* Object.values(expressions), in key order; key k is index k
    emState,     \* "new" (constructor not run), "ok", "threw" (constructor threw)
    emPM,        \* potentialMatches: key -> sequence of progresses
    emFed,       \* history: symbols fed since construction or the last reset()
    emRet,       \* history: result of the last next(): 0 = null, k = key k
    emThrew      \* history: the last next() threw the multiple-matches error

VARIABLES
    \* ---- BracesMatcher
    bmPairs,     \* the Braces[] given to the constructor
    bmState,     \* "new" (constructor not run), "ok", "threw" (constructor threw)
    bmO2C,       \* openingToClosing
    bmC2O,       \* closingToOpening
    bmStack,     \* stack of unmatched opening characters
    bmRet,       \* history: value returned by the last next() that returned
    bmThrew,     \* history: the last next() threw
    bmLastCh,    \* history: the argument of the last next(), "" before any
    bmOpens,     \* history: opening characters fed by calls that returned
    bmCloses,    \* history: closing characters fed by calls that returned
    bmCalls,     \* history: next() calls since construction or reset()
    bmThrows,    \* history: next() calls that threw since construction or reset()
    bmExample    \* history: returns so far while the calls spell BMExampleInput

VARIABLES
    \* ---- AbstractTokenizer and its concrete lexer
    tkLexer,       \* "generic" (any directive) or "ts" (TypeScriptTokenizer)
    tkMode,        \* who feeds: "free" (any character) or "parse" (AbstractParser.parse)
    tkLines,       \* codeLines of parse() when tkMode = "parse"
    tokenString,   \* AbstractTokenizer.tokenString
    stringBuffer,  \* AbstractTokenizer.stringBuffer
    charIdx,       \* AbstractTokenizer.charIdx
    tokStartIdx,   \* AbstractTokenizer.tokStartIdx
    ended,         \* AbstractTokenizer.ended
    tsLex,         \* TypeScriptTokenizer fields and its stringMatcher progresses
    tkFed,         \* history: characters fed since construction or reset()
    tkThrew,       \* history: the last call threw
    tkLastCall,    \* history: "none", "next" (a character), "end" (null), "reset"
    tkResets,      \* history: number of reset() calls
    tkDirtyReset   \* history: some reset() found the lexer mid-token or ended

tkVars == <<tkLexer, tkMode, tkLines, tokenString, stringBuffer, charIdx,
            tokStartIdx, ended, tsLex, tkFed, tkThrew, tkLastCall, tkResets,
            tkDirtyReset>>

emVars == <<emKind, emExprs, emState, emPM, emFed, emRet, emThrew>>
bmVars == <<bmPairs, bmState, bmO2C, bmC2O, bmStack, bmRet, bmThrew, bmLastCh,
            bmOpens, bmCloses, bmCalls, bmThrows, bmExample>>

\* AbstractParser, the tree it builds and the faithful tokenizer
VARIABLES
    psCommentBeforeFunction, \* what isCommentBeforeFunction() answers
    psVocabulary,  \* the symbol types the detect*Symbol methods answer with
    psStatus,      \* "new", "parsing", "parsed", "threw", "flattened", "replaced"
    psError,       \* the class of the exception that left parse()
    sourceLines,   \* AbstractParser.sourceLines
    sourceTokens,  \* AbstractParser.sourceTokens
    positionMap,   \* AbstractParser.positionMap
    nodes,         \* the SyntaxNode objects; node 1 is the root
    frame,         \* the running parseNonTerminal call
    pending,       \* the parseNonTerminal calls still to be made, in order
    ftMode,        \* ASTFaithfulTokenizer.tokenizationMode
    ftExclude,     \* ASTFaithfulTokenizer.excludeInnerRangeIfPossible
    ftTokens,      \* what flattenFaithfully returned
    ftThrew,       \* whether flattenFaithfully threw
    ftReplace      \* nodeToReplace (0 for null) and replacementString of the call

psVars == <<psCommentBeforeFunction, psVocabulary, psStatus, psError, sourceLines, sourceTokens,
            positionMap, nodes, frame, pending, ftMode, ftExclude, ftTokens, ftThrew,
            ftReplace>>

\* TypeScriptParser
VARIABLES
    tsd,           \* the detection state of the TypeScriptParser: its private fields
    tsTrees        \* the trees the parse() calls on the TypeScriptParser returned

tsVars == <<tsd, tsTrees>>

\* PythonParser
VARIABLES
    pyd,           \* the PythonParser: its private fields
    creationInfo,  \* nodeCreationInformation of the running parseNonTerminal call
    nodeInfo       \* what the constructors of the nodes were given, node by node

pyVars == <<pyd, creationInfo, nodeInfo>>

vars == <<emVars, bmVars, tkVars, psVars, tsVars, pyVars>>

\* ------------------------------------------------------------------------
\* Generic helpers
\* ------------------------------------------------------------------------

\* Array.prototype.splice(i, 1) on a 1-based sequence.
RemoveAt(s, i) == SubSeq(s, 1, i - 1) \o SubSeq(s, i + 1, Len(s))

\* ------------------------------------------------------------------------
\* ExpressionMatcher and StringExpressionMatcher
\* ------------------------------------------------------------------------

MaxPatLen == 2      \* longest pattern enumerated
MaxKeys == 2        \* most keys of an enumerated expressions record
MaxFeed == 4        \* most symbols fed to a matcher between resets

EMKinds == {"ExpressionMatcher", "StringExpressionMatcher"}

\* The symbols of the streams: numbers for ExpressionMatcher, characters for
\* StringExpressionMatcher (the delimiters of the TypeScript lexer).
EMSymbols(kind) == IF kind = "ExpressionMatcher" THEN {7, 8} ELSE {"/", "*"}

EMPatterns(kind) == UNION {[1..n -> EMSymbols(kind)] : n \in 0..MaxPatLen}

\* The expressions of the advanced example of docs/matchers/ExpressionMatcher.md:
\* alpha, beta, gamma.
EMAdvancedExample == << <<7, 8, 9, 10>>, <<8, 9, 10>>, <<9, 10>> >>

EMExprLists(kind) ==
    UNION {[1..n -> EMPatterns(kind)] : n \in 0..MaxKeys}
    \cup (IF kind = "ExpressionMatcher" THEN {EMAdvancedExample} ELSE {})

\* ExpressionMatcher.isSuffix: compares from the back, i = 1 .. seqB.length.
RECURSIVE isSuffixFrom(_, _, _)
isSuffixFrom(seqA, seqB, i) ==
    IF i > Len(seqB) THEN TRUE
    ELSE IF seqA[Len(seqA) - i + 1] # seqB[Len(seqB) - i + 1] THEN FALSE
    ELSE isSuffixFrom(seqA, seqB, i + 1)

\* isSuffix with the comparison started one element too late: the last
\* elements are never compared.
isSuffixSkipsLast(seqA, seqB) ==
    IF Len(seqB) > Len(seqA) THEN FALSE ELSE isSuffixFrom(seqA, seqB, 2)

isSuffix(seqA, seqB) ==
    IF Len(seqB) > Len(seqA) THEN FALSE ELSE isSuffixFrom(seqA, seqB, 1)

\* String.prototype.endsWith.
endsWith(strA, strB) ==
    /\ Len(strB) <= Len(strA)
    /\ SubSeq(strA, Len(strA) - Len(strB) + 1, Len(strA)) = strB

\* ExpressionMatcher.validateExpressions: TRUE when it returns, FALSE when it
\* throws.
validateExpressionsNum(values) ==
    /\ Len(values) # 0
    /\ ~ \E k \in 1..Len(values) : Len(values[k]) = 0
    /\ ~ \E i, j \in 1..Len(values) : i # j /\ isSuffix(values[i], values[j])
    /\ Cardinality({values[k] : k \in 1..Len(values)}) = Len(values)

\* StringExpressionMatcher.validateExpressions.
validateExpressionsStr(values) ==
    /\ Len(values) # 0
    /\ ~ \E k \in 1..Len(values) : Len(values[k]) = 0
    /\ ~ \E i, j \in 1..Len(values) : i # j /\ endsWith(values[i], values[j])

validateExpressions(kind, values) ==
    IF kind = "ExpressionMatcher" THEN validateExpressionsNum(values)
    ELSE validateExpressionsStr(values)

\* The inner loop with the mismatch branch forgetting to splice the progress.
RECURSIVE EMInnerLoopKeepsMismatch(_, _, _, _, _, _)
EMInnerLoopKeepsMismatch(progresses, expr, sym, key, i, matched) ==
    IF i < 1 THEN [p |-> progresses, matched |-> matched, threw |-> FALSE]
    ELSE IF sym = expr[progresses[i] + 1]
         THEN LET adv == [progresses EXCEPT ![i] = @ + 1] IN
              IF adv[i] = Len(expr)
              THEN IF matched # 0
                   THEN [p |-> adv, matched |-> matched, threw |-> TRUE]
                   ELSE EMInnerLoopKeepsMismatch(RemoveAt(adv, i), expr, sym, key, i - 1, key)
              ELSE EMInnerLoopKeepsMismatch(adv, expr, sym, key, i - 1, matched)
         ELSE EMInnerLoopKeepsMismatch(progresses, expr, sym, key, i - 1, matched)

\* The inner loop of next() for one key: i runs from progresses.length - 1
\* down to 0 (here Len .. 1).  matched is 0 for null.  A throw leaves the
\* progresses as mutated so far.
RECURSIVE EMInnerLoop(_, _, _, _, _, _)
EMInnerLoop(progresses, expr, sym, key, i, matched) ==
    IF i < 1 THEN [p |-> progresses, matched |-> matched, threw |-> FALSE]
    ELSE IF sym = expr[progresses[i] + 1]
         THEN LET adv == [progresses EXCEPT ![i] = @ + 1] IN
              IF adv[i] = Len(expr)
              THEN IF matched # 0
                   THEN [p |-> adv, matched |-> matched, threw |-> TRUE]
                   ELSE EMInnerLoop(RemoveAt(adv, i), expr, sym, key, i - 1, key)
              ELSE EMInnerLoop(adv, expr, sym, key, i - 1, matched)
         ELSE EMInnerLoop(RemoveAt(progresses, i), expr, sym, key, i - 1, matched)

\* The outer loop of next() over Object.entries(expressions), from key k on.
RECURSIVE EMOuterLoop(_, _, _, _, _)
EMOuterLoop(exprs, pm, sym, k, matched) ==
    IF k > Len(exprs) THEN [pm |-> pm, matched |-> matched, threw |-> FALSE]
    ELSE LET pushed == Append(pm[k], 0)
             r == EMInnerLoop(pushed, exprs[k], sym, k, Len(pushed), matched)
         IN IF r.threw
            THEN [pm |-> [pm EXCEPT ![k] = r.p], matched |-> r.matched, threw |-> TRUE]
            ELSE EMOuterLoop(exprs, [pm EXCEPT ![k] = r.p], sym, k + 1, r.matched)

\* ExpressionMatcher.next / StringExpressionMatcher.next.
EMNextResult(exprs, pm, sym) == EMOuterLoop(exprs, pm, sym, 1, 0)

EMInit ==
    /\ emKind \in EMKinds
    /\ emExprs \in EMExprLists(emKind)
    /\ emState = "new"
    /\ emPM = <<>>
    /\ emFed = <<>>
    /\ emRet = 0
    /\ emThrew = FALSE

\* new ExpressionMatcher(expressions) / new StringExpressionMatcher(expressions)
EMConstruct ==
    /\ emState = "new"
    /\ IF validateExpressions(emKind, emExprs)
       THEN /\ emState' = "ok"
            /\ emPM' = [k \in 1..Len(emExprs) |-> <<>>]
       ELSE /\ emState' = "threw"
            /\ emPM' = emPM
    /\ UNCHANGED <<emKind, emExprs, emFed, emRet, emThrew>>

\* matcher.next(sym)
EMNext ==
    /\ emState = "ok"
    /\ Len(emFed) < MaxFeed
    /\ \E sym \in EMSymbols(emKind) :
          LET r == EMNextResult(emExprs, emPM, sym) IN
          /\ emPM' = r.pm
          /\ emRet' = IF r.threw THEN emRet ELSE r.matched
          /\ emThrew' = r.threw
          /\ emFed' = Append(emFed, sym)
    /\ UNCHANGED <<emKind, emExprs, emState>>

\* matcher.reset()
EMReset ==
    /\ emState = "ok"
    /\ emFed # <<>>
    /\ emPM' = [k \in DOMAIN emPM |-> <<>>]
    /\ emFed' = <<>>
    /\ emRet' = 0
    /\ emThrew' = FALSE
    /\ UNCHANGED <<emKind, emExprs, emState>>

\* ------------------------------------------------------------------------
\* BracesMatcher
\* ------------------------------------------------------------------------

MaxPairs == 2        \* most pairs of an enumerated Braces[]
MaxBraceCalls == 6   \* most next() calls on a BracesMatcher between resets

\* The braces of the parsers (PythonParser and TypeScriptParser constructors).
BMStandard == << [opening |-> <<"{">>, closing |-> <<"}">>],
                 [opening |-> <<"[">>, closing |-> <<"]">>],
                 [opening |-> <<"(">>, closing |-> <<")">>] >>

\* Strings offered as opening / closing of enumerated pairs (as character
\* sequences: empty, single characters and a two-character string).
BMStrings == { <<>>, <<"(">>, <<")">>, <<"[">>, <<"(", "(">> }

BMPairs == [opening : BMStrings, closing : BMStrings]

BMPairLists == {BMStandard} \cup UNION {[1..n -> BMPairs] : n \in 0..MaxPairs}

\* Map.set on a map kept as a function.
MapSet(m, k, v) == (k :> v) @@ m

\* The constructor loop over braces, from pair k on.
RECURSIVE BMCtorLoop(_, _, _, _, _)
BMCtorLoop(braces, k, o2c, c2o, tempIntersectionCheck) ==
    IF k > Len(braces) THEN [ok |-> TRUE, o2c |-> o2c, c2o |-> c2o]
    ELSE LET opening == braces[k].opening
             closing == braces[k].closing
             fail == [ok |-> FALSE, o2c |-> o2c, c2o |-> c2o]
         IN IF Len(opening) # 1 THEN fail
            ELSE IF Len(closing) # 1 THEN fail
            ELSE IF opening[1] \in tempIntersectionCheck THEN fail
            ELSE IF closing[1] \in (tempIntersectionCheck \cup {opening[1]}) THEN fail
            ELSE BMCtorLoop(braces, k + 1,
                            MapSet(o2c, opening[1], closing[1]),
                            MapSet(c2o, closing[1], opening[1]),
                            tempIntersectionCheck \cup {opening[1]})

BMCtor(braces) == BMCtorLoop(braces, 1, <<>>, <<>>, {})

\* next(ch) with the stack popped before a mismatched closing character is
\* reported.
BMNextResultPopsOnMismatch(o2c, c2o, stack, ch) ==
    IF ch \in DOMAIN o2c
    THEN [threw |-> FALSE, stack |-> Append(stack, ch)]
    ELSE IF ch \in DOMAIN c2o
    THEN IF Len(stack) = 0
         THEN [threw |-> TRUE, stack |-> stack]
         ELSE [threw |-> ch # o2c[stack[Len(stack)]],
               stack |-> SubSeq(stack, 1, Len(stack) - 1)]
    ELSE [threw |-> TRUE, stack |-> stack]

\* next(ch) with the pop of a matched closing character left out.
BMNextResultNoPop(o2c, c2o, stack, ch) ==
    IF ch \in DOMAIN o2c
    THEN [threw |-> FALSE, stack |-> Append(stack, ch)]
    ELSE IF ch \in DOMAIN c2o
    THEN IF Len(stack) = 0
         THEN [threw |-> TRUE, stack |-> stack]
         ELSE IF ch = o2c[stack[Len(stack)]]
              THEN [threw |-> FALSE, stack |-> stack]
              ELSE [threw |-> TRUE, stack |-> stack]
    ELSE [threw |-> TRUE, stack |-> stack]

\* BracesMatcher.next(ch) for a single character ch.
BMNextResult(o2c, c2o, stack, ch) ==
    IF ch \in DOMAIN o2c
    THEN [threw |-> FALSE, stack |-> Append(stack, ch)]
    ELSE IF ch \in DOMAIN c2o
    THEN IF Len(stack) = 0
         THEN [threw |-> TRUE, stack |-> stack]
         ELSE LET lastOpening == stack[Len(stack)]
                  expectedClosing == o2c[lastOpening]
              IN IF ch = expectedClosing
                 THEN [threw |-> FALSE, stack |-> SubSeq(stack, 1, Len(stack) - 1)]
                 ELSE [threw |-> TRUE, stack |-> stack]
    ELSE [threw |-> TRUE, stack |-> stack]

\* The characters offered to next(): those of the pairs and a non-brace.
BMChars(braces) ==
    {"x"} \cup UNION {{braces[k].opening[i] : i \in 1..Len(braces[k].opening)}
                       \cup {braces[k].closing[i] : i \in 1..Len(braces[k].closing)}
                      : k \in 1..Len(braces)}

BMOpeningChars(braces) ==
    {braces[k].opening[1] : k \in {j \in 1..Len(braces) : Len(braces[j].opening) = 1}}
BMClosingChars(braces) ==
    {braces[k].closing[1] : k \in {j \in 1..Len(braces) : Len(braces[j].closing) = 1}}

BMExampleInput == <<"{", "[", "(", ")", "]", "}">>

BMInit ==
    /\ bmPairs \in BMPairLists
    /\ bmState = "new"
    /\ bmO2C = <<>>
    /\ bmC2O = <<>>
    /\ bmStack = <<>>
    /\ bmRet = 0
    /\ bmThrew = FALSE
    /\ bmLastCh = ""
    /\ bmOpens = 0
    /\ bmCloses = 0
    /\ bmCalls = 0
    /\ bmThrows = 0
    /\ bmExample = <<>>

\* new BracesMatcher(braces)
BMConstruct ==
    /\ bmState = "new"
    /\ LET r == BMCtor(bmPairs) IN
       /\ bmState' = IF r.ok THEN "ok" ELSE "threw"
       /\ bmO2C' = r.o2c
       /\ bmC2O' = r.c2o
    /\ UNCHANGED <<bmPairs, bmStack, bmRet, bmThrew, bmLastCh, bmOpens,
                   bmCloses, bmCalls, bmThrows, bmExample>>

\* matcher.next(ch)
BMNext ==
    /\ bmState = "ok"
    /\ bmCalls < MaxBraceCalls
    /\ \E ch \in BMChars(bmPairs) :
          LET r == BMNextResult(bmO2C, bmC2O, bmStack, ch) IN
          /\ bmStack' = r.stack
          /\ bmThrew' = r.threw
          /\ bmLastCh' = ch
          /\ bmRet' = IF r.threw THEN bmRet ELSE Len(r.stack)
          /\ bmOpens' = IF ~r.threw /\ ch \in BMOpeningChars(bmPairs)
                        THEN bmOpens + 1 ELSE bmOpens
          /\ bmCloses' = IF ~r.threw /\ ch \in BMClosingChars(bmPairs)
                         THEN bmCloses + 1 ELSE bmCloses
          /\ bmCalls' = bmCalls + 1
          /\ bmThrows' = IF r.threw THEN bmThrows + 1 ELSE bmThrows
          /\ bmExample' = IF /\ Len(bmExample) = bmCalls
                             /\ bmCalls < Len(BMExampleInput)
                             /\ ch = BMExampleInput[bmCalls + 1]
                             /\ ~r.threw
                          THEN Append(bmExample, Len(r.stack))
                          ELSE <<>>
    /\ UNCHANGED <<bmPairs, bmState, bmO2C, bmC2O>>

\* matcher.reset()
BMReset ==
    /\ bmState = "ok"
    /\ bmCalls > 0
    /\ bmStack' = <<>>
    /\ bmRet' = 0
    /\ bmThrew' = FALSE
    /\ bmLastCh' = ""
    /\ bmOpens' = 0
    /\ bmCloses' = 0
    /\ bmCalls' = 0
    /\ bmThrows' = 0
    /\ bmExample' = <<>>
    /\ UNCHANGED <<bmPairs, bmState, bmO2C, bmC2O>>

\* ------------------------------------------------------------------------
\* AbstractTokenizer
\* ------------------------------------------------------------------------

MaxGenericChars == 3   \* most characters fed to the generic lexer
MaxTSChars == 4        \* most characters fed to the TypeScript lexer
MaxSplit == 2          \* largest numSplitCharacters a generic lexer returns
MaxResets == 1         \* most reset() calls
MaxLines == 2          \* most lines of a parsed source
MaxLineLen == 1        \* longest line of a parsed source

\* The fields of a freshly constructed AbstractTokenizer.
ATInitial ==
    [tokenString |-> <<>>, stringBuffer |-> <<>>, charIdx |-> 0,
     tokStartIdx |-> 0, ended |-> FALSE]

\* A matchNext() result; "null" / "undefined" / -1 stand for the absent parts.
Directive(type, singleChType, numSplitCharacters) ==
    [type |-> type, singleChType |-> singleChType,
     numSplitCharacters |-> numSplitCharacters]
NullDirective == Directive("null", "undefined", -1)

Token(tokenType, stringContents, start, end) ==
    [tokenType |-> tokenType, stringContents |-> stringContents,
     start |-> start, end |-> end]

\* String.prototype.substring(from, to) on a 1-based sequence, 0-based bounds.
Substring(s, from, to) == SubSeq(s, from + 1, to)

\* next(ch), lines 47-48: the character joins the buffer before matchNext.
ATAppend(t, ch) ==
    [t EXCEPT !.stringBuffer = Append(@, ch), !.charIdx = @ + 1]

\* The CONTINUATION branch keeping one character whatever numSplitCharacters
\* says.
ATContinuationKeepsOne(t, type, k) ==
    [t EXCEPT
        !.tokenString = Append(@, Token(type,
            Substring(t.stringBuffer, 0, Len(t.stringBuffer) - 1),
            t.tokStartIdx, t.charIdx - 1)),
        !.tokStartIdx = t.charIdx - 1,
        !.stringBuffer = Substring(t.stringBuffer, Len(t.stringBuffer) - 1,
                                   Len(t.stringBuffer))]


\* The CONTINUATION branch keeping the whole buffer instead of its suffix.
ATContinuationKeepsAll(t, type, k) ==
    [t EXCEPT
        !.tokenString = Append(@, Token(type,
            Substring(t.stringBuffer, 0, Len(t.stringBuffer) - k),
            t.tokStartIdx, t.charIdx - k)),
        !.tokStartIdx = t.charIdx - k]

\* next(ch), lines 80-86: emit the prefix, keep the last k characters buffered.
ATContinuation(t, type, k) ==
    [t EXCEPT
        !.tokenString = Append(@, Token(type,
            Substring(t.stringBuffer, 0, Len(t.stringBuffer) - k),
            t.tokStartIdx, t.charIdx - k)),
        !.tokStartIdx = t.charIdx - k,
        !.stringBuffer = Substring(t.stringBuffer, Len(t.stringBuffer) - k,
                                   Len(t.stringBuffer))]

\* next(ch) accepting a split that takes the whole buffer.
ATApplyDirectiveSplitsAll(t, dir) ==
    IF dir = NullDirective THEN [t |-> t, threw |-> FALSE]
    ELSE IF dir.type = "CONTINUATION" THEN [t |-> t, threw |-> TRUE]
    ELSE LET length == t.charIdx - t.tokStartIdx IN
         IF dir.singleChType = "undefined"
         THEN [t |-> [t EXCEPT
                        !.tokenString = Append(@, Token(dir.type, t.stringBuffer,
                                                        t.tokStartIdx, t.charIdx)),
                        !.tokStartIdx = t.charIdx,
                        !.stringBuffer = <<>>],
               threw |-> FALSE]
         ELSE LET k == IF dir.numSplitCharacters = -1 THEN 1
                       ELSE dir.numSplitCharacters
                  bl == Len(t.stringBuffer)
              IN IF k < 1 \/ length < k THEN [t |-> t, threw |-> TRUE]
                 ELSE IF dir.singleChType = "CONTINUATION"
                 THEN [t |-> ATContinuation(t, dir.type, k), threw |-> FALSE]
                 ELSE [t |-> [t EXCEPT
                        !.tokenString = @ \o
                            << Token(dir.type, Substring(t.stringBuffer, 0, bl - k),
                                     t.tokStartIdx, t.charIdx - k),
                               Token(dir.singleChType,
                                     Substring(t.stringBuffer, bl - k, bl),
                                     t.charIdx - k, t.charIdx) >>,
                        !.tokStartIdx = t.charIdx,
                        !.stringBuffer = <<>>],
                       threw |-> FALSE]


\* next(ch), lines 50-101: what the tokenizer does with matchNext's result.
ATApplyDirective(t, dir) ==
    IF dir = NullDirective THEN [t |-> t, threw |-> FALSE]
    ELSE IF dir.type = "CONTINUATION" THEN [t |-> t, threw |-> TRUE]
    ELSE LET length == t.charIdx - t.tokStartIdx IN
         IF dir.singleChType = "undefined"
         THEN [t |-> [t EXCEPT
                        !.tokenString = Append(@, Token(dir.type, t.stringBuffer,
                                                        t.tokStartIdx, t.charIdx)),
                        !.tokStartIdx = t.charIdx,
                        !.stringBuffer = <<>>],
               threw |-> FALSE]
         ELSE LET k == IF dir.numSplitCharacters = -1 THEN 1
                       ELSE dir.numSplitCharacters
                  bl == Len(t.stringBuffer)
              IN IF k < 1 \/ length < k + 1 THEN [t |-> t, threw |-> TRUE]
                 ELSE IF dir.singleChType = "CONTINUATION"
                 THEN [t |-> ATContinuation(t, dir.type, k), threw |-> FALSE]
                 ELSE [t |-> [t EXCEPT
                        !.tokenString = @ \o
                            << Token(dir.type, Substring(t.stringBuffer, 0, bl - k),
                                     t.tokStartIdx, t.charIdx - k),
                               Token(dir.singleChType,
                                     Substring(t.stringBuffer, bl - k, bl),
                                     t.charIdx - k, t.charIdx) >>,
                        !.tokStartIdx = t.charIdx,
                        !.stringBuffer = <<>>],
                       threw |-> FALSE]

\* next(null), lines 36-41, with endType the result of matchEndCharacter().
ATEnd(t, endType) ==
    [t EXCEPT
        !.tokenString = IF t.charIdx > t.tokStartIdx
                        THEN Append(@, Token(endType, t.stringBuffer,
                                             t.tokStartIdx, t.charIdx))
                        ELSE @,
        !.ended = TRUE]

\* ------------------------------------------------------------------------
\* TypeScriptTokenizer
\* ------------------------------------------------------------------------

\* The expressions of the tokenizer's StringExpressionMatcher, in key order:
\* 1 COMMENT_START, 2 MULTILINE_COMMENT_START, 3 MULTILINE_COMMENT_END.
TSExpressions == << <<"/", "/">>, <<"/", "*">>, <<"*", "/">> >>
TSKeys == <<"COMMENT_START", "MULTILINE_COMMENT_START", "MULTILINE_COMMENT_END">>
TSMatchedKey(m) == IF m = 0 THEN "null" ELSE TSKeys[m]
TSMatcherReset == [k \in 1..Len(TSExpressions) |-> <<>>]

\* The lexer fields after the constructor.
TSInitial ==
    [insideSingleLineComments |-> FALSE, insideStringStatus |-> "NONE",
     previousIsEscape |-> FALSE, pm |-> TSMatcherReset]

\* onReset() forgetting stringMatcher.reset().
TSOnResetKeepsMatcher(lx) ==
    [lx EXCEPT !.insideStringStatus = "NONE",
               !.insideSingleLineComments = FALSE,
               !.previousIsEscape = FALSE]

TSOnReset(lx) ==
    [lx EXCEPT !.insideStringStatus = "NONE",
               !.insideSingleLineComments = FALSE,
               !.previousIsEscape = FALSE,
               !.pm = TSMatcherReset]

TSMatchEndCharacter(lx) ==
    IF lx.insideSingleLineComments THEN "SINGLELINE_COMMENTS"
    ELSE IF lx.insideStringStatus \in {"SINGLE_QUOTES", "DOUBLE_QUOTES"} THEN "STRINGS"
    ELSE IF lx.insideStringStatus = "MULTILINE_BACKTICKS"
         THEN "MULTILINE_COMMENTS_OR_STRINGS"
    ELSE IF lx.insideStringStatus = "MULTILINE_COMMENTS"
         THEN "MULTILINE_COMMENTS_OR_STRINGS"
    ELSE "OTHERS"

\* The character U+0060, which a string literal of this module cannot hold.
Backtick == "U+0060"

\* The escape bookkeeping shared by the three string situations.
TSEscape(lx, ch) ==
    [lx EXCEPT !.previousIsEscape = IF ch = "\\" THEN ~@ ELSE FALSE]

\* handleSingleQuoteSituation / handleDoubleQuoteSituation, quote being ' or ".
TSHandleQuoteSituation(lx, ch, quote) ==
    IF ch = quote /\ ~lx.previousIsEscape
    THEN [lx |-> [lx EXCEPT !.previousIsEscape = FALSE, !.insideStringStatus = "NONE"],
          dir |-> Directive("STRINGS", "undefined", -1)]
    ELSE IF ch = "\n"
    THEN [lx |-> [lx EXCEPT !.previousIsEscape = FALSE, !.insideStringStatus = "NONE"],
          dir |-> Directive("STRINGS", "SPACINGS", -1)]
    ELSE [lx |-> TSEscape(lx, ch), dir |-> NullDirective]

TSHandleMultilineBackticksSituation(lx, ch) ==
    IF ch = Backtick /\ ~lx.previousIsEscape
    THEN [lx |-> [lx EXCEPT !.previousIsEscape = FALSE, !.insideStringStatus = "NONE"],
          dir |-> Directive("MULTILINE_COMMENTS_OR_STRINGS", "undefined", -1)]
    ELSE [lx |-> TSEscape(lx, ch), dir |-> NullDirective]

TSHandleMultilineCommentsSituation(lx, ch, matched) ==
    IF matched = "MULTILINE_COMMENT_END"
    THEN [lx |-> [lx EXCEPT !.insideStringStatus = "NONE"],
          dir |-> Directive("MULTILINE_COMMENTS_OR_STRINGS", "undefined", -1)]
    ELSE [lx |-> lx, dir |-> NullDirective]

TSSituation(lx, tokenType, needsResetSplitChars) ==
    [lx |-> lx, tokenType |-> tokenType, needsResetSplitChars |-> needsResetSplitChars]

TSHandleOtherSituation(lx, ch, matched) ==
    IF ch \in {"{", "}", "[", "]", "(", ")"} THEN TSSituation(lx, "BRACES", 1)
    ELSE IF ch \in {" ", "\t", "\n", ";"} THEN TSSituation(lx, "SPACINGS", 1)
    ELSE IF ch = "," THEN TSSituation(lx, "COMMAS", 1)
    ELSE IF ch \in {":", "<", ">"} THEN TSSituation(lx, "OTHERS", 1)
    ELSE IF ch = "="
         THEN TSSituation([lx EXCEPT !.insideStringStatus = "EQUALS"], "null", 1)
    ELSE IF ch = Backtick
         THEN TSSituation([lx EXCEPT !.insideStringStatus = "MULTILINE_BACKTICKS"], "null", 1)
    ELSE IF ch = "'"
         THEN TSSituation([lx EXCEPT !.insideStringStatus = "SINGLE_QUOTES"], "null", 1)
    ELSE IF ch = "\""
         THEN TSSituation([lx EXCEPT !.insideStringStatus = "DOUBLE_QUOTES"], "null", 1)
    ELSE IF matched = "MULTILINE_COMMENT_START"
         THEN TSSituation([lx EXCEPT !.insideStringStatus = "MULTILINE_COMMENTS"], "null", 2)
    ELSE IF matched = "COMMENT_START"
         THEN TSSituation([lx EXCEPT !.insideSingleLineComments = TRUE], "null", 2)
    ELSE TSSituation(lx, "null", 0)

TSHandleEqualsSituation(lx, ch, matched) ==
    LET cleared == [lx EXCEPT !.insideStringStatus = "NONE"] IN
    IF ch = ">" THEN [lx |-> cleared, dir |-> Directive("OTHERS", "undefined", -1)]
    ELSE LET action == TSHandleOtherSituation(cleared, ch, matched) IN
         [lx |-> action.lx,
          dir |-> Directive("OTHERS",
                            IF action.tokenType = "null" THEN "CONTINUATION"
                            ELSE action.tokenType, -1)]

\* matchNext(ch) after the stringMatcher call; bufLen is currentBufferLength().
TSMatchNextAfterMatcher(lx, ch, matched, bufLen) ==
    IF lx.insideSingleLineComments
    THEN IF ch = "\n"
         THEN [lx |-> [lx EXCEPT !.insideSingleLineComments = FALSE],
               dir |-> Directive("SINGLELINE_COMMENTS", "SPACINGS", -1)]
         ELSE [lx |-> lx, dir |-> NullDirective]
    ELSE IF lx.insideStringStatus = "SINGLE_QUOTES"
         THEN TSHandleQuoteSituation(lx, ch, "'")
    ELSE IF lx.insideStringStatus = "DOUBLE_QUOTES"
         THEN TSHandleQuoteSituation(lx, ch, "\"")
    ELSE IF lx.insideStringStatus = "MULTILINE_BACKTICKS"
         THEN TSHandleMultilineBackticksSituation(lx, ch)
    ELSE IF lx.insideStringStatus = "MULTILINE_COMMENTS"
         THEN TSHandleMultilineCommentsSituation(lx, ch, matched)
    ELSE IF lx.insideStringStatus = "EQUALS"
         THEN TSHandleEqualsSituation(lx, ch, matched)
    ELSE LET situation == TSHandleOtherSituation(lx, ch, matched) IN
         IF situation.needsResetSplitChars = 0
         THEN [lx |-> situation.lx, dir |-> NullDirective]
         ELSE IF bufLen = situation.needsResetSplitChars
         THEN [lx |-> situation.lx,
               dir |-> IF situation.tokenType = "null" THEN NullDirective
                       ELSE Directive(situation.tokenType, "undefined", -1)]
         ELSE [lx |-> situation.lx,
               dir |-> Directive("OTHERS",
                                 IF situation.tokenType = "null" THEN "CONTINUATION"
                                 ELSE situation.tokenType, -1)]

\* matchNext(ch): feed the stringMatcher, reset it on a match, then dispatch.
TSMatchNext(lx, ch, bufLen) ==
    LET r == EMNextResult(TSExpressions, lx.pm, ch) IN
    IF r.threw THEN [lx |-> [lx EXCEPT !.pm = r.pm], dir |-> NullDirective, threw |-> TRUE]
    ELSE LET fed == [lx EXCEPT !.pm = IF r.matched # 0 THEN TSMatcherReset ELSE r.pm]
             res == TSMatchNextAfterMatcher(fed, ch, TSMatchedKey(r.matched), bufLen)
         IN [lx |-> res.lx, dir |-> res.dir, threw |-> FALSE]

\* One next(ch) of a TypeScriptTokenizer that has not ended.
TSNextChar(t, lx, ch) ==
    LET appended == ATAppend(t, ch)
        m == TSMatchNext(lx, ch, Len(appended.stringBuffer))
    IN IF m.threw THEN [t |-> appended, lx |-> m.lx, threw |-> TRUE]
       ELSE LET a == ATApplyDirective(appended, m.dir) IN
            [t |-> a.t, lx |-> m.lx, threw |-> a.threw]

\* The tokens a newly constructed TypeScriptTokenizer holds after being fed
\* the characters of s one by one, then null when atEnd.
RECURSIVE TSFreshFeed(_, _, _, _)
TSFreshFeed(t, lx, s, i) ==
    IF i > Len(s) THEN [t |-> t, lx |-> lx]
    ELSE LET r == TSNextChar(t, lx, s[i]) IN TSFreshFeed(r.t, r.lx, s, i + 1)
TSFreshTokens(s, atEnd) ==
    LET r == TSFreshFeed(ATInitial, TSInitial, s, 1) IN
    IF atEnd THEN ATEnd(r.t, TSMatchEndCharacter(r.lx)).tokenString
    ELSE r.t.tokenString

\* ------------------------------------------------------------------------
\* A tokenizer instance and its callers
\* ------------------------------------------------------------------------

TKLexers == {"generic", "ts"}
TKModes == {"free", "parse"}
TKAlphabet(lexer) ==
    IF lexer = "ts" THEN {"a", "/", "*", "\n", "=", "'"} ELSE {"a", "\n"}
TKLineAlphabet(lexer) == TKAlphabet(lexer) \ {"\n"}
TKMaxChars(lexer) == IF lexer = "ts" THEN MaxTSChars ELSE MaxGenericChars

\* What a lexer with no constraint but its return type may answer.
GenericDirectives ==
    {NullDirective} \cup
    { Directive(ty, sct, k) : ty \in {"OTHERS", "CONTINUATION"},
                              sct \in {"undefined", "SPACINGS", "CONTINUATION"},
                              k \in {-1} \cup 0..MaxSplit }
GenericEndTypes == {"OTHERS", "SPACINGS"}

\* parse(), lines 36-45: the characters one line hands to tokenizer.next.
RECURSIVE ParseFeedLine(_, _)
ParseFeedLine(line, character) ==
    IF character > Len(line) THEN <<>>
    ELSE << IF character < Len(line) THEN line[character + 1] ELSE "\n" >>
         \o ParseFeedLine(line, character + 1)

\* parse(), line 35: codeLines.forEach from lineIndex on.
RECURSIVE ParseFedChars(_, _)
ParseFedChars(codeLines, lineIndex) ==
    IF lineIndex > Len(codeLines) THEN <<>>
    ELSE ParseFeedLine(codeLines[lineIndex], 0) \o ParseFedChars(codeLines, lineIndex + 1)

\* parse(), line 27: the sources parse() rejects as empty.
ParseRejectsEmpty(codeLines) ==
    Len(codeLines) = 0 \/ (Len(codeLines) = 1 /\ Len(codeLines[1]) = 0)

TKLinesOver(alphabet) ==
    UNION { [1..n -> alphabet] : n \in 0..MaxLineLen }
TKLineLists(lexer) ==
    { ls \in UNION { [1..n -> TKLinesOver(TKLineAlphabet(lexer))] : n \in 1..MaxLines } :
        /\ ~ParseRejectsEmpty(ls)
        /\ Len(ParseFedChars(ls, 1)) <= TKMaxChars(lexer) }

TKFields ==
    [tokenString |-> tokenString, stringBuffer |-> stringBuffer,
     charIdx |-> charIdx, tokStartIdx |-> tokStartIdx, ended |-> ended]

TKSetFields(t) ==
    /\ tokenString' = t.tokenString
    /\ stringBuffer' = t.stringBuffer
    /\ charIdx' = t.charIdx
    /\ tokStartIdx' = t.tokStartIdx
    /\ ended' = t.ended

\* The characters the caller may hand over next.
TKNextChars ==
    IF tkMode = "free" THEN TKAlphabet(tkLexer)
    ELSE LET all == ParseFedChars(tkLines, 1) IN
         IF Len(tkFed) < Len(all) THEN {all[Len(tkFed) + 1]} ELSE {}

TKInit ==
    /\ tkLexer \in TKLexers
    /\ tkMode \in TKModes
    /\ tkLines \in IF tkMode = "parse" THEN TKLineLists(tkLexer) ELSE {<<>>}
    /\ tokenString = ATInitial.tokenString
    /\ stringBuffer = ATInitial.stringBuffer
    /\ charIdx = ATInitial.charIdx
    /\ tokStartIdx = ATInitial.tokStartIdx
    /\ ended = ATInitial.ended
    /\ tsLex = TSInitial
    /\ tkFed = <<>>
    /\ tkThrew = FALSE
    /\ tkLastCall = "none"
    /\ tkResets = 0
    /\ tkDirtyReset = FALSE

\* tokenizer.next(ch) with a character
TKNext ==
    /\ tkMode = "parse" => ~tkThrew /\ ~ended
    /\ tkLastCall' = "next"
    /\ IF ended
       THEN /\ tkThrew' = TRUE
            /\ UNCHANGED <<tokenString, stringBuffer, charIdx, tokStartIdx, ended,
                           tsLex, tkFed>>
       ELSE /\ Len(tkFed) < TKMaxChars(tkLexer)
            /\ \E ch \in TKNextChars :
                 /\ tkFed' = Append(tkFed, ch)
                 /\ IF tkLexer = "ts"
                    THEN LET r == TSNextChar(TKFields, tsLex, ch) IN
                         /\ TKSetFields(r.t)
                         /\ tsLex' = r.lx
                         /\ tkThrew' = r.threw
                    ELSE \E dir \in GenericDirectives :
                         LET r == ATApplyDirective(ATAppend(TKFields, ch), dir) IN
                         /\ TKSetFields(r.t)
                         /\ tsLex' = tsLex
                         /\ tkThrew' = r.threw
    /\ UNCHANGED <<tkLexer, tkMode, tkLines, tkResets, tkDirtyReset>>

\* tokenizer.next(null)
TKNextNull ==
    /\ tkMode = "parse" => ~tkThrew /\ ~ended /\ TKNextChars = {}
    /\ tkLastCall' = "end"
    /\ IF ended
       THEN /\ tkThrew' = TRUE
            /\ UNCHANGED <<tokenString, stringBuffer, charIdx, tokStartIdx, ended>>
       ELSE /\ tkThrew' = FALSE
            /\ \E endType \in IF tkLexer = "ts" THEN {TSMatchEndCharacter(tsLex)}
                              ELSE GenericEndTypes :
                 TKSetFields(ATEnd(TKFields, endType))
    /\ UNCHANGED <<tkLexer, tkMode, tkLines, tsLex, tkFed, tkResets, tkDirtyReset>>

\* tokenizer.reset()
TKReset ==
    /\ tkMode = "free"
    /\ tkLastCall # "none"
    /\ tkResets < MaxResets
    /\ TKSetFields(ATInitial)
    /\ tsLex' = IF tkLexer = "ts" THEN TSOnReset(tsLex) ELSE tsLex
    /\ tkFed' = <<>>
    /\ tkThrew' = FALSE
    /\ tkLastCall' = "reset"
    /\ tkResets' = tkResets + 1
    /\ tkDirtyReset' = (tkDirtyReset \/ tsLex # TSInitial \/ stringBuffer # <<>>)
    /\ UNCHANGED <<tkLexer, tkMode, tkLines>>

\* ------------------------------------------------------------------------
\* utils.ts: indices and ranges
\* ------------------------------------------------------------------------

Index(line, character) == [line |-> line, character |-> character]

Range(sl, sc, el, ec) ==
    [start_line |-> sl, start_character |-> sc, end_line |-> el, end_character |-> ec]

\* A Range | null value that is null.
NullRange == Range(-1, -1, -1, -1)

rangeToStartIndex(range) == Index(range.start_line, range.start_character)
rangeToEndIndex(range) == Index(range.end_line, range.end_character)
indexesToRange(start, end) == Range(start.line, start.character, end.line, end.character)

compare(index1, index2) ==
    IF index1.line < index2.line THEN -1
    ELSE IF index2.line < index1.line THEN 1
    ELSE IF index1.character < index2.character THEN -1
    ELSE IF index2.character < index1.character THEN 1
    ELSE 0

contains(biggerRange, insideRange) ==
    /\ compare(rangeToStartIndex(biggerRange), rangeToStartIndex(insideRange)) <= 0
    /\ compare(rangeToEndIndex(insideRange), rangeToEndIndex(biggerRange)) <= 0

\* mergeRanges: the loop over ranges[i], i >= 1, with the running start and end.
RECURSIVE mergeRangesFrom(_, _, _, _)
mergeRangesFrom(ranges, i, start, end) ==
    IF i > Len(ranges) THEN indexesToRange(start, end)
    ELSE LET start2 == rangeToStartIndex(ranges[i])
             end2 == rangeToEndIndex(ranges[i])
         IN mergeRangesFrom(ranges, i + 1,
                            IF compare(start2, start) = -1 THEN start2 ELSE start,
                            IF compare(end, end2) = -1 THEN end2 ELSE end)

\* mergeRanges answering its first range alone.
mergeRangesFirstOnly(ranges) == ranges[1]

\* mergeRanges(ranges) for a non-empty list.
mergeRanges(ranges) ==
    mergeRangesFrom(ranges, 2, rangeToStartIndex(ranges[1]), rangeToEndIndex(ranges[1]))

getMaxRange(codeLines) ==
    IF Len(codeLines) = 0 THEN Range(0, 0, 0, 0)
    ELSE Range(0, 0, Len(codeLines), 0)

\* ------------------------------------------------------------------------
\* AbstractSyntaxTree.getSourceText
\* ------------------------------------------------------------------------

\* String.prototype.substring(from, to) with the clamping JavaScript applies.
SubstringJS(s, from, to) ==
    LET Clamp(n) == IF n < 0 THEN 0 ELSE IF n > Len(s) THEN Len(s) ELSE n
        a == Clamp(from)
        b == Clamp(to)
    IN IF a <= b THEN SubSeq(s, a + 1, b) ELSE SubSeq(s, b + 1, a)

\* Array.prototype.join("\n") over lines[i..].
RECURSIVE JoinLines(_, _)
JoinLines(lines, i) ==
    IF i > Len(lines) THEN <<>>
    ELSE IF i = Len(lines) THEN lines[i]
    ELSE lines[i] \o <<"\n">> \o JoinLines(lines, i + 1)

\* getSourceText(start_line, start_character, end_line, end_character):
\* threw, or the text.
getSourceText(srcLines, sl, sc, el, ec) ==
    IF sl < 0 \/ el > Len(srcLines) \/ sl > el \/ (sl = el /\ sc > ec)
    THEN [threw |-> TRUE, text |-> <<>>]
    ELSE IF (el = Len(srcLines) /\ ec # 0)
            \/ (el < Len(srcLines) /\ ec > Len(srcLines[el + 1]))
    THEN [threw |-> TRUE, text |-> <<>>]
    ELSE IF sl >= Len(srcLines) \/ sc > Len(srcLines[sl + 1])
    THEN [threw |-> TRUE, text |-> <<>>]
    ELSE LET upto == IF el + 1 < Len(srcLines) THEN el + 1 ELSE Len(srcLines)
             sliced == SubSeq(srcLines, sl + 1, upto)
             lines == IF el = Len(srcLines) THEN Append(sliced, <<>>) ELSE sliced
         IN IF Len(lines) = 1
            THEN [threw |-> FALSE, text |-> SubstringJS(lines[1], sc, ec)]
            ELSE LET first == SubstringJS(lines[1], sc, Len(lines[1]))
                     last == SubstringJS(lines[Len(lines)], 0, ec)
                     adjusted == [lines EXCEPT ![1] = first, ![Len(lines)] = last]
                 IN [threw |-> FALSE, text |-> JoinLines(adjusted, 1)]

getSourceTextFromRange(srcLines, range) ==
    getSourceText(srcLines, range.start_line, range.start_character,
                  range.end_line, range.end_character)

\* ------------------------------------------------------------------------
\* AbstractParser: parse()
\* ------------------------------------------------------------------------

MaxSourceChars == 3    \* most characters parse() feeds (newlines included)
MaxSymbols == 2        \* most symbols a detector finds in one non-terminal
MaxFunctionSymbols == 3  \* most symbols a detector finds in one FUNCTIONS
MaxNodes == 4          \* most nodes a parse creates below the root
MaxTrim == 1           \* most tokens a parseRange leaves off its symbolRange
MaxAffix == 1          \* most characters between a range and its inner range, per side

\* isTerminal: the symbol is none of TOP_LEVEL, CLASSES, FUNCTIONS,
\* FUNCTION_DECLARATION, FUNCTION_BODY.
isTerminal(symbol) ==
    symbol \in {"COMMENT_SINGLELINE", "COMMENT_MULTILINE", "REFERENCES", "ARGUMENT",
                "ATTRIBUTES", "FILLER", "STATEMENTS_FILLER"}

\* A TokenRange | null value that is null, and an absent parseRange.
TokenRange(startTok, endTok) == [startTok |-> startTok, endTok |-> endTok]
NullTokenRange == TokenRange(-1, -1)

\* The lines of the source whose line lengths are shape, written with the
\* letters a, b, c, ... in order of appearance.
RECURSIVE PSLinesOfShape(_, _, _)
PSLinesOfShape(shape, i, used) ==
    IF i > Len(shape) THEN <<>>
    ELSE << [c \in 1..shape[i] |-> <<"a", "b", "c", "d", "e", "f">>[used + c]] >>
         \o PSLinesOfShape(shape, i + 1, used + shape[i])

\* The codeLines handed to parse(): at most MaxLines lines of at most
\* MaxLineLen characters, at most MaxSourceChars fed characters in all, the
\* two empty sources included.
PSSources ==
    { PSLinesOfShape(shape, 1, 0) :
        shape \in { s \in UNION { [1..n -> 0..MaxLineLen] : n \in 0..MaxLines } :
                        Len(ParseFedChars(PSLinesOfShape(s, 1, 0), 1)) <= MaxSourceChars } }

\* parse(), lines 35-50: the token lists the feeding loop can end with; the
\* tokenizer of preparseGetTokenizer() closes the buffer as one token per
\* character.
RECURSIVE PSLexRuns(_, _, _)
PSLexRuns(t, chars, i) ==
    IF i > Len(chars) THEN {ATEnd(t, "OTHERS").tokenString}
    ELSE UNION { PSLexRuns(ATApplyDirective(ATAppend(t, chars[i]), dir).t, chars, i + 1) :
                    dir \in {Directive("OTHERS", "undefined", -1)} }

\* parse(), lines 34-48: the positionMap entries of the lines from lineIndex
\* on, one per character and one for the "\n", then the closing entry.
RECURSIVE PSPositionsFrom(_, _)
PSPositionsFrom(codeLines, lineIndex) ==
    IF lineIndex >= Len(codeLines) THEN <<Index(Len(codeLines), 0)>>
    ELSE [c \in 1..(Len(codeLines[lineIndex + 1]) + 1) |-> Index(lineIndex, c - 1)]
         \o PSPositionsFrom(codeLines, lineIndex + 1)

\* getIndex(chIndex) and getRange(chStartIdx, chEndIdx).
getIndex(pmap, chIndex) == pmap[chIndex + 1]
getRange(pmap, chStartIdx, chEndIdx) ==
    indexesToRange(getIndex(pmap, chStartIdx), getIndex(pmap, chEndIdx))

\* A SyntaxNode as its constructor leaves it.
Node(kind, range, isMultiLine) ==
    [kind |-> kind, range |-> range, innerRangeOverride |-> NullRange,
     parent |-> 0, children |-> <<>>, siblingRank |-> 0,
     isMultiLine |-> isMultiLine, funcBodyNonEmpty |-> FALSE]

\* addChild putting the node in front of its siblings.
addChildInFront(nodeTable, parent, node) ==
    [nodeTable EXCEPT ![node].parent = parent,
                      ![node].siblingRank = Len(nodeTable[parent].children),
                      ![parent].children = <<node>> \o @]

\* parent.addChild(node) on the node table.
addChild(nodeTable, parent, node) ==
    [nodeTable EXCEPT ![node].parent = parent,
                      ![node].siblingRank = Len(nodeTable[parent].children),
                      ![parent].children = Append(@, node)]

\* A parseNonTerminal call whose loop starts one token after tokRange.startTok.
FrameSkipsFirstToken(nonTerminal, parent, tokRange, depth) ==
    [nonTerminal |-> nonTerminal, parent |-> parent,
     startTok |-> tokRange.startTok, endTok |-> tokRange.endTok, depth |-> depth,
     currentTokIndex |-> IF tokRange.startTok < tokRange.endTok
                         THEN tokRange.startTok + 1 ELSE tokRange.startTok,
     parsedEndTokIndex |-> tokRange.startTok,
     state |-> <<>>, ntParseRange |-> <<>>, symbolRange |-> <<>>,
     tokenBuffer |-> <<>>, concluded |-> FALSE, childNodes |-> <<>>]


\* The local variables of a parseNonTerminal call at its first line.
Frame(nonTerminal, parent, tokRange, depth) ==
    [nonTerminal |-> nonTerminal, parent |-> parent,
     startTok |-> tokRange.startTok, endTok |-> tokRange.endTok, depth |-> depth,
     currentTokIndex |-> tokRange.startTok, parsedEndTokIndex |-> tokRange.startTok,
     state |-> <<>>, ntParseRange |-> <<>>, symbolRange |-> <<>>,
     tokenBuffer |-> <<>>, concluded |-> FALSE, childNodes |-> <<>>]
NoFrame == Frame("none", 0, NullTokenRange, -1)

\* A parseNonTerminal call still to be made.
Call(nonTerminal, parent, tokRange, depth) ==
    [nonTerminal |-> nonTerminal, parent |-> parent, tokRange |-> tokRange,
     depth |-> depth]

\* ------------------------------------------------------------------------
\* AbstractParser: updateTokenStreamState
\* ------------------------------------------------------------------------

MaxSecondLen == 2      \* largest secondSymbolLen a detector returns
MaxEndBufferLen == 1   \* largest firstTwoSymbolsEndBufferLen a detector returns

\* A SymbolAdditionDirective; "undefined", NullTokenRange and -1 stand for
\* the absent secondSymbol, parseRange and lengths.
SymbolAdditionDirective(symbolType, parseRange, secondSymbolType, secondSymbolLen, endBufferLen) ==
    [symbolType |-> symbolType, parseRange |-> parseRange,
     secondSymbolType |-> secondSymbolType, secondSymbolLen |-> secondSymbolLen,
     firstTwoSymbolsEndBufferLen |-> endBufferLen]
NullSAD == SymbolAdditionDirective("null", NullTokenRange, "undefined", -1, -1)

\* The parseRange of the secondSymbol of a directive: only a directive of
\* detectCodeBlocks of the TypeScriptParser carries one.
secondSymbolParseRange(dir) ==
    IF "secondParseRange" \in DOMAIN dir THEN dir.secondParseRange ELSE NullTokenRange

\* assertParseRangeCorrectness without the containment check.
assertParseRangeThrowsOnNullOnly(symbolType, parseRange, symbolRange) ==
    IF ~isTerminal(symbolType)
    THEN parseRange = NullTokenRange
    ELSE parseRange # NullTokenRange

\* assertParseRangeCorrectness: TRUE when it throws.
assertParseRangeThrows(symbolType, parseRange, symbolRange) ==
    IF ~isTerminal(symbolType)
    THEN \/ parseRange = NullTokenRange
         \/ ~(symbolRange.startTok <= parseRange.startTok
              /\ parseRange.endTok <= symbolRange.endTok)
    ELSE parseRange # NullTokenRange

\* updateTokenStreamState without the check of secondSymbolLen against the
\* length of the buffer.
updateTokenStreamStateAnySecondLen(f, dir) ==
    LET len == Len(f.tokenBuffer)
        hasSecond == dir.secondSymbolType # "undefined"
        ssl == dir.secondSymbolLen
        ebl == dir.firstTwoSymbolsEndBufferLen
        p == f.parsedEndTokIndex
        Ok(g) == [f |-> g, threw |-> FALSE, error |-> "none"]
        Throw(g, error) == [f |-> g, threw |-> TRUE, error |-> error]
        \* The four pushes and the assertion that record one detected symbol.
        PushSymbol(g, symbolType, parseRange, range) ==
            LET given == IF ~isTerminal(symbolType) /\ parseRange = NullTokenRange
                         THEN range ELSE parseRange
                pushed == [g EXCEPT !.state = Append(@, symbolType),
                                    !.symbolRange = Append(@, range),
                                    !.ntParseRange = Append(@, given)]
            IN IF assertParseRangeThrows(symbolType, given, range)
               THEN Throw(pushed, "CodeParserImplError")
               ELSE Ok(pushed)
        \* The branch for two symbols followed by a retained tail of the buffer.
        ThreeWay ==
            LET sep == len - ebl - ssl
                secondSymbolEnd == len - ebl
                one == PushSymbol(f, dir.symbolType, dir.parseRange, TokenRange(p, p + sep))
                two == PushSymbol(one.f, dir.secondSymbolType, secondSymbolParseRange(dir),
                                  TokenRange(p + sep, p + secondSymbolEnd))
            IN IF one.threw THEN one
               ELSE IF two.threw THEN two
               ELSE Ok([two.f EXCEPT
                          !.tokenBuffer = SubSeq(f.tokenBuffer, secondSymbolEnd + 1, len),
                          !.parsedEndTokIndex = p + secondSymbolEnd])
        \* The last branch: the first symbol takes all but the last secondSymbolLen
        \* tokens, which are the second symbol or stay in the buffer.
        Split ==
            LET k == IF ssl = -1 THEN 1 ELSE ssl
                one == PushSymbol(f, dir.symbolType, dir.parseRange,
                                  TokenRange(p, p + len - k))
                two == PushSymbol(one.f, dir.secondSymbolType, secondSymbolParseRange(dir),
                                  TokenRange(p + len - k, p + len))
            IN IF one.threw THEN one
               ELSE IF ~hasSecond
               THEN Ok([one.f EXCEPT !.parsedEndTokIndex = p + (len - k),
                                     !.tokenBuffer = SubSeq(f.tokenBuffer, len - k + 1, len)])
               ELSE IF two.threw THEN two
               ELSE Ok([two.f EXCEPT !.tokenBuffer = <<>>,
                                     !.parsedEndTokIndex = p + len])
        \* The first branch: the whole buffer is one symbol.
        Single ==
            LET one == PushSymbol(f, dir.symbolType, dir.parseRange, TokenRange(p, p + len))
            IN IF one.threw THEN one
               ELSE Ok([one.f EXCEPT !.parsedEndTokIndex = p + len,
                                     !.tokenBuffer = <<>>])
    IN IF dir = NullSAD THEN Ok(f)
       ELSE IF dir.symbolType = "TOP_LEVEL" THEN Throw(f, "CodeParserImplError")
       ELSE IF hasSecond /\ dir.secondSymbolType = "TOP_LEVEL"
            THEN Throw(f, "CodeParserImplError")
       ELSE IF hasSecond /\ len < 2 THEN Throw(f, "CodeParserImplError")
       ELSE IF ssl # -1 /\ ssl < 1 THEN Throw(f, "CodeParserImplError")
       ELSE IF ebl # -1 /\ (~hasSecond \/ ssl = -1) THEN Throw(f, "CodeParserImplError")
       ELSE IF ebl # -1 /\ ebl < 1 THEN Throw(f, "CodeParserImplError")
       ELSE IF ebl # -1 /\ ebl + ssl >= len THEN Throw(f, "CodeParserImplError")
       ELSE IF ~hasSecond /\ ssl = -1 THEN Single
       ELSE IF ebl # -1 THEN ThreeWay
       ELSE Split

\* updateTokenStreamState once the detector has answered dir: the frame as
\* the call leaves it, whether it threw, and the error.
updateTokenStreamState(f, dir) ==
    LET len == Len(f.tokenBuffer)
        hasSecond == dir.secondSymbolType # "undefined"
        ssl == dir.secondSymbolLen
        ebl == dir.firstTwoSymbolsEndBufferLen
        p == f.parsedEndTokIndex
        Ok(g) == [f |-> g, threw |-> FALSE, error |-> "none"]
        Throw(g, error) == [f |-> g, threw |-> TRUE, error |-> error]
        \* The four pushes and the assertion that record one detected symbol.
        PushSymbol(g, symbolType, parseRange, range) ==
            LET given == IF ~isTerminal(symbolType) /\ parseRange = NullTokenRange
                         THEN range ELSE parseRange
                pushed == [g EXCEPT !.state = Append(@, symbolType),
                                    !.symbolRange = Append(@, range),
                                    !.ntParseRange = Append(@, given)]
            IN IF assertParseRangeThrows(symbolType, given, range)
               THEN Throw(pushed, "CodeParserImplError")
               ELSE Ok(pushed)
        \* The branch for two symbols followed by a retained tail of the buffer.
        ThreeWay ==
            LET sep == len - ebl - ssl
                secondSymbolEnd == len - ebl
                one == PushSymbol(f, dir.symbolType, dir.parseRange, TokenRange(p, p + sep))
                two == PushSymbol(one.f, dir.secondSymbolType, secondSymbolParseRange(dir),
                                  TokenRange(p + sep, p + secondSymbolEnd))
            IN IF one.threw THEN one
               ELSE IF two.threw THEN two
               ELSE Ok([two.f EXCEPT
                          !.tokenBuffer = SubSeq(f.tokenBuffer, secondSymbolEnd + 1, len),
                          !.parsedEndTokIndex = p + secondSymbolEnd])
        \* The last branch: the first symbol takes all but the last secondSymbolLen
        \* tokens, which are the second symbol or stay in the buffer.
        Split ==
            LET k == IF ssl = -1 THEN 1 ELSE ssl
                one == PushSymbol(f, dir.symbolType, dir.parseRange,
                                  TokenRange(p, p + len - k))
                two == PushSymbol(one.f, dir.secondSymbolType, secondSymbolParseRange(dir),
                                  TokenRange(p + len - k, p + len))
            IN IF one.threw THEN one
               ELSE IF ~hasSecond
               THEN Ok([one.f EXCEPT !.parsedEndTokIndex = p + (len - k),
                                     !.tokenBuffer = SubSeq(f.tokenBuffer, len - k + 1, len)])
               ELSE IF two.threw THEN two
               ELSE Ok([two.f EXCEPT !.tokenBuffer = <<>>,
                                     !.parsedEndTokIndex = p + len])
        \* The first branch: the whole buffer is one symbol.
        Single ==
            LET one == PushSymbol(f, dir.symbolType, dir.parseRange, TokenRange(p, p + len))
            IN IF one.threw THEN one
               ELSE Ok([one.f EXCEPT !.parsedEndTokIndex = p + len,
                                     !.tokenBuffer = <<>>])
    IN IF dir = NullSAD THEN Ok(f)
       ELSE IF dir.symbolType = "TOP_LEVEL" THEN Throw(f, "CodeParserImplError")
       ELSE IF hasSecond /\ dir.secondSymbolType = "TOP_LEVEL"
            THEN Throw(f, "CodeParserImplError")
       ELSE IF hasSecond /\ len < 2 THEN Throw(f, "CodeParserImplError")
       ELSE IF ssl # -1 /\ ssl >= len THEN Throw(f, "CodeParserImplError")
       ELSE IF ssl # -1 /\ ssl < 1 THEN Throw(f, "CodeParserImplError")
       ELSE IF ebl # -1 /\ (~hasSecond \/ ssl = -1) THEN Throw(f, "CodeParserImplError")
       ELSE IF ebl # -1 /\ ebl < 1 THEN Throw(f, "CodeParserImplError")
       ELSE IF ebl # -1 /\ ebl + ssl >= len THEN Throw(f, "CodeParserImplError")
       ELSE IF ~hasSecond /\ ssl = -1 THEN Single
       ELSE IF ebl # -1 THEN ThreeWay
       ELSE Split

\* The concrete parsers: what isCommentBeforeFunction() answers and the symbol
\* types the detector draws its answers from: a parser of declarations, two
\* of functions, and one of classes with methods.
PSParsers ==
    { [commentBeforeFunction |-> TRUE,
       vocabulary |-> {"REFERENCES", "ATTRIBUTES", "CLASSES", "COMMENT_SINGLELINE",
                       "STATEMENTS_FILLER"}],
      [commentBeforeFunction |-> TRUE,
       vocabulary |-> {"FUNCTIONS", "FUNCTION_DECLARATION", "FUNCTION_BODY", "ARGUMENT",
                       "COMMENT_MULTILINE", "FILLER"}],
      [commentBeforeFunction |-> FALSE,
       vocabulary |-> {"FUNCTIONS", "FUNCTION_DECLARATION", "FUNCTION_BODY", "ARGUMENT",
                       "COMMENT_MULTILINE", "FILLER"}],
      [commentBeforeFunction |-> FALSE,
       vocabulary |-> {"CLASSES", "FUNCTIONS", "FUNCTION_DECLARATION", "FUNCTION_BODY",
                       "TOP_LEVEL", "STATEMENTS_FILLER"}] }

\* What a detector may answer on one call, symbolRange being the range a
\* single symbol gets from the frame as it stands: one symbol of its
\* vocabulary, a non-terminal with no
\* parseRange, with the symbolRange less its last tokens or with one token too
\* many; or a directive that splits the buffer.
PSDirectives(vocabulary, f) ==
    LET symbolRange ==
            TokenRange(f.parsedEndTokIndex, f.parsedEndTokIndex + Len(f.tokenBuffer))
        untrimmed ==
            {NullTokenRange, TokenRange(symbolRange.startTok, symbolRange.endTok + 1)}
        \* A parseRange shorter than the symbol is offered with CLASSES only.
        trimmed ==
            { TokenRange(symbolRange.startTok, symbolRange.endTok - trim) :
                 trim \in { t \in 1..MaxTrim : symbolRange.startTok + t <= symbolRange.endTok } }
        splits ==
            { <<"undefined", 1, -1>>, <<"FILLER", -1, -1>>, <<"FUNCTION_BODY", 1, -1>>,
              <<"FUNCTION_BODY", 1, 1>>, <<"TOP_LEVEL", -1, -1>>, <<"undefined", 0, -1>>,
              <<"undefined", MaxSecondLen, -1>>, <<"undefined", 1, 1>>,
              <<"FILLER", 1, 0>>, <<"FILLER", 1, MaxEndBufferLen>> }
    IN {NullSAD}
       \cup { SymbolAdditionDirective(ty, pr, "undefined", -1, -1) :
                 ty \in vocabulary, pr \in untrimmed }
       \cup { SymbolAdditionDirective(ty, pr, "undefined", -1, -1) :
                 ty \in vocabulary \cap {"CLASSES"}, pr \in trimmed }
       \cup { SymbolAdditionDirective(ty, NullTokenRange, split[1], split[2], split[3]) :
                 ty \in vocabulary \cap {"COMMENT_MULTILINE", "FUNCTION_DECLARATION"},
                 split \in splits }

\* ------------------------------------------------------------------------
\* AbstractParser: validation, node creation, attachment
\* ------------------------------------------------------------------------

\* validateParsingStateTopLevel accepting ATTRIBUTES and ARGUMENT as well.
validateParsingStateTopLevelLax(state) ==
    \A i \in 1..Len(state) :
        state[i] \in {"COMMENT_MULTILINE", "COMMENT_SINGLELINE", "FILLER", "REFERENCES",
                      "STATEMENTS_FILLER", "CLASSES", "FUNCTIONS", "ATTRIBUTES", "ARGUMENT"}

validateParsingStateTopLevel(state) ==
    \A i \in 1..Len(state) :
        state[i] \in {"COMMENT_MULTILINE", "COMMENT_SINGLELINE", "FILLER", "REFERENCES",
                      "STATEMENTS_FILLER", "CLASSES", "FUNCTIONS"}

validateParsingStateClasses(state) ==
    \A i \in 1..Len(state) :
        state[i] \in {"COMMENT_MULTILINE", "COMMENT_SINGLELINE", "STATEMENTS_FILLER",
                      "FILLER", "ATTRIBUTES", "FUNCTIONS"}

\* getFirstLast with 1-based positions; 0 stands for -1.
getFirstLast(state) ==
    LET found == { i \in 1..Len(state) : state[i] \notin {"FILLER", "STATEMENTS_FILLER"} }
    IN [first |-> IF found = {} THEN 0 ELSE CHOOSE i \in found : \A j \in found : i <= j,
        last |-> IF found = {} THEN 0 ELSE CHOOSE i \in found : \A j \in found : j <= i]

validateParsingStateFunctions(state) ==
    /\ Len(state) >= 2
    /\ getFirstLast(state).first # 0
    /\ state[getFirstLast(state).first] = "FUNCTION_DECLARATION"
    /\ getFirstLast(state).last # 0
    /\ state[getFirstLast(state).last] = "FUNCTION_BODY"

validateParsingStateFunctionBody(state) ==
    \A i \in 1..Len(state) :
        state[i] \in {"COMMENT_MULTILINE", "COMMENT_SINGLELINE", "FILLER", "STATEMENTS_FILLER"}

validateParsingStateFunctionDeclaration(state) ==
    \A i \in 1..Len(state) :
        /\ state[i] # "STATEMENTS_FILLER"
        /\ state[i] \in {"COMMENT_MULTILINE", "COMMENT_SINGLELINE", "FILLER", "ARGUMENT"}

\* The switch of parseNonTerminal, lines 183-201.
validateParsingState(nonTerminal, state) ==
    CASE nonTerminal = "TOP_LEVEL" -> validateParsingStateTopLevel(state)
      [] nonTerminal = "CLASSES" -> validateParsingStateClasses(state)
      [] nonTerminal = "FUNCTIONS" -> validateParsingStateFunctions(state)
      [] nonTerminal = "FUNCTION_BODY" -> validateParsingStateFunctionBody(state)
      [] nonTerminal = "FUNCTION_DECLARATION" -> validateParsingStateFunctionDeclaration(state)

\* The node class resolveIntoNode creates for a symbol, "null" for none.
NodeKindOf(detectedType) ==
    CASE detectedType = "ARGUMENT" -> "Argument"
      [] detectedType = "ATTRIBUTES" -> "Attributes"
      [] detectedType \in {"COMMENT_MULTILINE", "COMMENT_SINGLELINE"} -> "Comments"
      [] detectedType = "REFERENCES" -> "References"
      [] detectedType = "CLASSES" -> "Classes"
      [] detectedType = "FUNCTIONS" -> "Functions"
      [] detectedType = "FUNCTION_DECLARATION" -> "FunctionDeclaration"
      [] OTHER -> "null"

\* resolveIntoNode dereferences sourceTokens[startTok] and sourceTokens[endTok - 1].
resolveDereferences(toks, detectedRange) ==
    /\ detectedRange.startTok \in 0..(Len(toks) - 1)
    /\ detectedRange.endTok - 1 \in 0..(Len(toks) - 1)

resolveRange(toks, pmap, detectedRange) ==
    getRange(pmap, toks[detectedRange.startTok + 1].start, toks[detectedRange.endTok].end)

\* A FunctionGroups that is given its first member only.
addFunctionGroupsFirstOnly(nodeTable, parent, range, members) ==
    LET gp == Len(nodeTable) + 1
        made == Append(nodeTable, Node("FunctionGroups", range, FALSE))
    IN addChild(addChild(made, gp, members[1]), parent, gp)

\* new FunctionGroups(range) with its children, attached to parent.
addFunctionGroups(nodeTable, parent, range, members) ==
    LET gp == Len(nodeTable) + 1
        made == Append(nodeTable, Node("FunctionGroups", range, FALSE))
        filled == IF Len(members) = 2
                  THEN addChild(addChild(made, gp, members[1]), gp, members[2])
                  ELSE addChild(made, gp, members[1])
    IN addChild(filled, parent, gp)

\* The iteration with a STATEMENTS_FILLER that leaves isFirst as it is.
AttachSymbolStatementsKeepFirst(acc, f, i, checkCommentFunctionPair, checkFirstCommentInFunction) ==
    LET sym == f.state[i]
        ani == f.childNodes[i]
        parent == f.parent
        inBody == f.nonTerminal = "FUNCTION_BODY" /\ acc.nodes[parent].kind = "Functions"
        flagHaveFunctionBody(nodeTable, n) ==
            [nodeTable EXCEPT ![n].funcBodyNonEmpty = TRUE]
    IN IF sym = "FILLER" THEN acc
       ELSE IF sym = "STATEMENTS_FILLER"
       THEN [acc EXCEPT !.nodes = IF inBody THEN flagHaveFunctionBody(@, parent) ELSE @]
       ELSE IF ani = 0 THEN acc
       ELSE
         LET isComment == acc.nodes[ani].kind = "Comments"
             multi == acc.nodes[ani].isMultiLine
             flagged == IF inBody /\ (~isComment \/ ~checkFirstCommentInFunction
                                      \/ ~multi \/ ~acc.isFirst)
                        THEN flagHaveFunctionBody(acc.nodes, parent) ELSE acc.nodes
             hasDangling == checkCommentFunctionPair /\ acc.dangling # 0
             flushed == IF hasDangling THEN addChild(flagged, parent, acc.dangling) ELSE flagged
         IN IF isComment
            THEN IF checkCommentFunctionPair /\ multi
                 THEN [nodes |-> flushed, dangling |-> ani, isFirst |-> FALSE]
                 ELSE IF checkFirstCommentInFunction /\ multi /\ acc.isFirst
                 THEN [nodes |-> addChild(flushed, flushed[parent].parent, ani),
                       dangling |-> IF hasDangling THEN 0 ELSE acc.dangling,
                       isFirst |-> FALSE]
                 ELSE [nodes |-> addChild(flushed, parent, ani),
                       dangling |-> IF hasDangling THEN 0 ELSE acc.dangling,
                       isFirst |-> FALSE]
            ELSE IF acc.nodes[ani].kind = "Functions"
            THEN IF hasDangling
                 THEN [nodes |-> addFunctionGroups(flagged, parent,
                                    mergeRanges(<<flagged[acc.dangling].range, flagged[ani].range>>),
                                    <<acc.dangling, ani>>),
                       dangling |-> 0, isFirst |-> FALSE]
                 ELSE [nodes |-> addFunctionGroups(flagged, parent, flagged[ani].range, <<ani>>),
                       dangling |-> acc.dangling, isFirst |-> FALSE]
            ELSE [nodes |-> addChild(flushed, parent, ani),
                  dangling |-> IF hasDangling THEN 0 ELSE acc.dangling,
                  isFirst |-> FALSE]

\* One iteration of the loop of lines 225-290 over symbol i; acc carries the
\* node table, danglingMultilineComment (0 for null) and isFirst.
AttachSymbol(acc, f, i, checkCommentFunctionPair, checkFirstCommentInFunction) ==
    LET sym == f.state[i]
        ani == f.childNodes[i]
        parent == f.parent
        inBody == f.nonTerminal = "FUNCTION_BODY" /\ acc.nodes[parent].kind = "Functions"
        flagHaveFunctionBody(nodeTable, n) ==
            [nodeTable EXCEPT ![n].funcBodyNonEmpty = TRUE]
    IN IF sym = "FILLER" THEN acc
       ELSE IF sym = "STATEMENTS_FILLER"
       THEN [acc EXCEPT !.isFirst = FALSE,
                        !.nodes = IF inBody THEN flagHaveFunctionBody(@, parent) ELSE @]
       ELSE IF ani = 0 THEN acc
       ELSE
         LET isComment == acc.nodes[ani].kind = "Comments"
             multi == acc.nodes[ani].isMultiLine
             flagged == IF inBody /\ (~isComment \/ ~checkFirstCommentInFunction
                                      \/ ~multi \/ ~acc.isFirst)
                        THEN flagHaveFunctionBody(acc.nodes, parent) ELSE acc.nodes
             hasDangling == checkCommentFunctionPair /\ acc.dangling # 0
             flushed == IF hasDangling THEN addChild(flagged, parent, acc.dangling) ELSE flagged
         IN IF isComment
            THEN IF checkCommentFunctionPair /\ multi
                 THEN [nodes |-> flushed, dangling |-> ani, isFirst |-> FALSE]
                 ELSE IF checkFirstCommentInFunction /\ multi /\ acc.isFirst
                 THEN [nodes |-> addChild(flushed, flushed[parent].parent, ani),
                       dangling |-> IF hasDangling THEN 0 ELSE acc.dangling,
                       isFirst |-> FALSE]
                 ELSE [nodes |-> addChild(flushed, parent, ani),
                       dangling |-> IF hasDangling THEN 0 ELSE acc.dangling,
                       isFirst |-> FALSE]
            ELSE IF acc.nodes[ani].kind = "Functions"
            THEN IF hasDangling
                 THEN [nodes |-> addFunctionGroups(flagged, parent,
                                    mergeRanges(<<flagged[acc.dangling].range, flagged[ani].range>>),
                                    <<acc.dangling, ani>>),
                       dangling |-> 0, isFirst |-> FALSE]
                 ELSE [nodes |-> addFunctionGroups(flagged, parent, flagged[ani].range, <<ani>>),
                       dangling |-> acc.dangling, isFirst |-> FALSE]
            ELSE [nodes |-> addChild(flushed, parent, ani),
                  dangling |-> IF hasDangling THEN 0 ELSE acc.dangling,
                  isFirst |-> FALSE]

RECURSIVE AttachFrom(_, _, _, _, _)
AttachFrom(acc, f, i, checkCommentFunctionPair, checkFirstCommentInFunction) ==
    IF i > Len(f.state) THEN acc
    ELSE AttachFrom(AttachSymbol(acc, f, i, checkCommentFunctionPair,
                                 checkFirstCommentInFunction),
                    f, i + 1, checkCommentFunctionPair, checkFirstCommentInFunction)

\* Lines 219-295: the node table once every symbol of the frame is attached.
AttachChildren(nodeTable, f, commentBeforeFunction) ==
    LET checkCommentFunctionPair ==
            commentBeforeFunction /\ f.nonTerminal \in {"TOP_LEVEL", "CLASSES"}
        checkFirstCommentInFunction ==
            ~commentBeforeFunction /\ f.nonTerminal = "FUNCTION_BODY"
        done == AttachFrom([nodes |-> nodeTable, dangling |-> 0, isFirst |-> TRUE], f, 1,
                           checkCommentFunctionPair, checkFirstCommentInFunction)
    IN IF done.dangling # 0 THEN addChild(done.nodes, f.parent, done.dangling)
       ELSE done.nodes

\* Lines 298-305: the recursive calls of the frame, in order.
RECURSIVE RecursionCalls(_, _)
RecursionCalls(f, i) ==
    IF i > Len(f.state) THEN <<>>
    ELSE IF isTerminal(f.state[i]) THEN RecursionCalls(f, i + 1)
    ELSE <<Call(f.state[i],
                IF f.childNodes[i] # 0 THEN f.childNodes[i] ELSE f.parent,
                f.ntParseRange[i], f.depth + 1)>>
         \o RecursionCalls(f, i + 1)

\* Lines 213-216: the two calls of the FUNCTIONS case.
FunctionsCalls(f) ==
    <<Call("FUNCTION_DECLARATION", f.childNodes[getFirstLast(f.state).first],
           f.ntParseRange[getFirstLast(f.state).first], f.depth + 1),
      Call("FUNCTION_BODY", f.parent, f.ntParseRange[getFirstLast(f.state).last],
           f.depth + 1)>>

\* ------------------------------------------------------------------------
\* AbstractParser instance: parse() step by step
\* ------------------------------------------------------------------------

\* The innerRange a createClassesNode / createFunctionsNode passes to
\* overrideInnerRange, NullRange when it makes no such call.
PSInnerRanges(pmap, chStartIdx, chEndIdx) ==
    {NullRange, getRange(pmap, chStartIdx, Len(pmap) - 1)}
    \cup { getRange(pmap, a, b) :
              a \in { x \in chStartIdx..(chStartIdx + MaxAffix) : x <= chEndIdx },
              b \in { y \in (chEndIdx - MaxAffix)..chEndIdx : y >= chStartIdx } }

\* nodeToReplace and replacementString; NoReplace is both null.
NoReplace == [node |-> 0, text |-> <<>>]

\* The bounds on the symbols of a frame and on the nodes of the parse. The
\* symbols of the frame not yet resolved cost one node each when they resolve
\* into one, and one more per FUNCTIONS symbol for its FunctionGroups.
PSWithinBounds(nodeTable, f) ==
    LET rest == (Len(f.childNodes) + 1)..Len(f.state)
        resolving == { i \in rest : NodeKindOf(f.state[i]) # "null" }
        grouped == { i \in rest : f.state[i] = "FUNCTIONS" /\ f.nonTerminal # "FUNCTIONS" }
    IN /\ Len(f.state) <= IF f.nonTerminal = "FUNCTIONS" THEN MaxFunctionSymbols ELSE MaxSymbols
       /\ Len(nodeTable) + Cardinality(resolving) + Cardinality(grouped) <= MaxNodes + 1

PSInit ==
    /\ \E parser \in PSParsers :
          /\ psCommentBeforeFunction = parser.commentBeforeFunction
          /\ psVocabulary = parser.vocabulary
    /\ psStatus = "new"
    /\ psError = "none"
    /\ sourceLines = <<>>
    /\ sourceTokens = <<>>
    /\ positionMap = <<>>
    /\ nodes = <<>>
    /\ frame = NoFrame
    /\ pending = <<>>
    /\ ftMode = "none"
    /\ ftExclude = FALSE
    /\ ftTokens = <<>>
    /\ ftThrew = FALSE
    /\ ftReplace = NoReplace

\* An exception leaves parse(): no tree is returned.
PSThrow(error) ==
    /\ psStatus' = "threw"
    /\ psError' = error
    /\ nodes' = <<>>
    /\ frame' = NoFrame
    /\ pending' = <<>>

\* parse(codeLines) up to the first line of parseNonTerminal(TOP_LEVEL, ...).
PSParse ==
    /\ psStatus = "new"
    /\ \E codeLines \in PSSources :
          /\ sourceLines' = codeLines
          /\ IF ParseRejectsEmpty(codeLines)
             THEN /\ PSThrow("CodeParsingError")
                  /\ UNCHANGED <<sourceTokens, positionMap>>
             ELSE \E toks \in PSLexRuns(ATInitial, ParseFedChars(codeLines, 1), 1) :
                     /\ sourceTokens' = toks
                     /\ positionMap' = PSPositionsFrom(codeLines, 0)
                     /\ nodes' = <<Node("TopLevel", getMaxRange(codeLines), FALSE)>>
                     /\ frame' = Frame("TOP_LEVEL", 1, TokenRange(0, Len(toks)), 0)
                     /\ pending' = <<>>
                     /\ psStatus' = "parsing"
                     /\ psError' = "none"
    /\ UNCHANGED <<psCommentBeforeFunction, psVocabulary, ftMode, ftExclude, ftTokens, ftThrew, ftReplace>>

\* One iteration of the loop of parseNonTerminal, lines 164-173.
PSDetect ==
    /\ psStatus = "parsing"
    /\ ~frame.concluded
    /\ frame.currentTokIndex < frame.endTok
    /\ LET buffered == [frame EXCEPT !.tokenBuffer = Append(@, frame.currentTokIndex)]
       IN \E dir \in PSDirectives(psVocabulary, buffered) :
          LET r == updateTokenStreamState(buffered, dir)
          IN IF r.threw
             THEN PSThrow(r.error)
             ELSE /\ PSWithinBounds(nodes, r.f)
                  /\ frame' = [r.f EXCEPT !.currentTokIndex = @ + 1]
                  /\ UNCHANGED <<psStatus, psError, nodes, pending>>
    /\ UNCHANGED <<psCommentBeforeFunction, psVocabulary, sourceLines, sourceTokens, positionMap,
                   ftMode, ftExclude, ftTokens, ftThrew, ftReplace>>

\* The concluding call without the check for non-parsed tokens.
PSConcludeSkipsCheck ==
    /\ psStatus = "parsing"
    /\ ~frame.concluded
    /\ frame.currentTokIndex >= frame.endTok
    /\ \E dir \in PSDirectives(psVocabulary, frame) :
          LET r == updateTokenStreamState(frame, dir)
          IN IF r.threw
             THEN PSThrow(r.error)
             ELSE IF ~validateParsingState(frame.nonTerminal, r.f.state)
             THEN PSThrow("CodeParserImplError")
             ELSE /\ PSWithinBounds(nodes, r.f)
                  /\ frame' = [r.f EXCEPT !.concluded = TRUE]
                  /\ UNCHANGED <<psStatus, psError, nodes, pending>>
    /\ UNCHANGED <<psCommentBeforeFunction, psVocabulary, sourceLines, sourceTokens, positionMap,
                   ftMode, ftExclude, ftTokens, ftThrew, ftReplace>>

\* The concluding call, the check for non-parsed tokens and the validation,
\* lines 175-201.
PSConclude ==
    /\ psStatus = "parsing"
    /\ ~frame.concluded
    /\ frame.currentTokIndex >= frame.endTok
    /\ \E dir \in PSDirectives(psVocabulary, frame) :
          LET r == updateTokenStreamState(frame, dir)
          IN IF r.threw
             THEN PSThrow(r.error)
             ELSE IF r.f.parsedEndTokIndex # frame.endTok
             THEN PSThrow("CodeParsingError")
             ELSE IF ~validateParsingState(frame.nonTerminal, r.f.state)
             THEN PSThrow("CodeParserImplError")
             ELSE /\ PSWithinBounds(nodes, r.f)
                  /\ frame' = [r.f EXCEPT !.concluded = TRUE]
                  /\ UNCHANGED <<psStatus, psError, nodes, pending>>
    /\ UNCHANGED <<psCommentBeforeFunction, psVocabulary, sourceLines, sourceTokens, positionMap,
                   ftMode, ftExclude, ftTokens, ftThrew, ftReplace>>

\* One iteration of the loop of lines 205-207: resolveIntoNode on the next symbol.
PSResolve ==
    /\ psStatus = "parsing"
    /\ frame.concluded
    /\ Len(frame.childNodes) < Len(frame.state)
    /\ LET i == Len(frame.childNodes) + 1
           detectedType == frame.state[i]
           detectedRange == frame.symbolRange[i]
       IN IF ~resolveDereferences(sourceTokens, detectedRange)
          THEN PSThrow("TypeError")
          ELSE LET range == resolveRange(sourceTokens, positionMap, detectedRange)
                   kind == NodeKindOf(detectedType)
               IN IF kind = "null"
                  THEN /\ frame' = [frame EXCEPT !.childNodes = Append(@, 0)]
                       /\ UNCHANGED <<psStatus, psError, nodes, pending>>
                  ELSE \E innerRange \in IF kind \in {"Classes", "Functions"}
                                         THEN PSInnerRanges(positionMap,
                                                 sourceTokens[detectedRange.startTok + 1].start,
                                                 sourceTokens[detectedRange.endTok].end)
                                         ELSE {NullRange} :
                          IF innerRange # NullRange /\ ~contains(range, innerRange)
                          THEN PSThrow("Error")
                          ELSE /\ nodes' = Append(nodes,
                                      [Node(kind, range, detectedType = "COMMENT_MULTILINE")
                                          EXCEPT !.innerRangeOverride = innerRange])
                               /\ frame' = [frame EXCEPT !.childNodes = Append(@, Len(nodes) + 1)]
                               /\ UNCHANGED <<psStatus, psError, pending>>
    /\ UNCHANGED <<psCommentBeforeFunction, psVocabulary, sourceLines, sourceTokens, positionMap,
                   ftMode, ftExclude, ftTokens, ftThrew, ftReplace>>

\* Lines 211-306: the nodes join the tree and the next parseNonTerminal call
\* starts; parse() returns when none is left.
PSAttach ==
    /\ psStatus = "parsing"
    /\ frame.concluded
    /\ Len(frame.childNodes) = Len(frame.state)
    /\ LET isFunctions == frame.nonTerminal = "FUNCTIONS"
           calls == (IF isFunctions THEN FunctionsCalls(frame) ELSE RecursionCalls(frame, 1))
                    \o pending
       IN /\ nodes' = IF isFunctions
                      THEN addChild(nodes, frame.parent, frame.childNodes[getFirstLast(frame.state).first])
                      ELSE AttachChildren(nodes, frame, psCommentBeforeFunction)
          /\ IF calls = <<>>
             THEN /\ psStatus' = "parsed"
                  /\ frame' = NoFrame
                  /\ pending' = <<>>
             ELSE /\ psStatus' = "parsing"
                  /\ frame' = Frame(calls[1].nonTerminal, calls[1].parent,
                                    calls[1].tokRange, calls[1].depth)
                  /\ pending' = Tail(calls)
    /\ UNCHANGED <<psCommentBeforeFunction, psVocabulary, psError, sourceLines, sourceTokens, positionMap,
                   ftMode, ftExclude, ftTokens, ftThrew, ftReplace>>

\* ------------------------------------------------------------------------
\* SyntaxNode ranges and ASTGenericTokenizer.getTexts
\* ------------------------------------------------------------------------

RECURSIVE ChildrenRanges(_, _, _)
ChildrenRanges(nodeTable, n, i) ==
    IF i > Len(nodeTable[n].children) THEN <<>>
    ELSE <<nodeTable[nodeTable[n].children[i]].range>> \o ChildrenRanges(nodeTable, n, i + 1)

\* getInnerRange() with the override left out.
getInnerRangeNoOverride(nodeTable, n) ==
    IF nodeTable[n].children = <<>> THEN NullRange
    ELSE mergeRanges(ChildrenRanges(nodeTable, n, 1))

getInnerRange(nodeTable, n) ==
    IF nodeTable[n].innerRangeOverride # NullRange THEN nodeTable[n].innerRangeOverride
    ELSE IF nodeTable[n].children = <<>> THEN NullRange
    ELSE mergeRanges(ChildrenRanges(nodeTable, n, 1))

getPrefixRange(nodeTable, n) ==
    LET innerRange == getInnerRange(nodeTable, n)
    IN IF innerRange = NullRange THEN NullRange
       ELSE indexesToRange(rangeToStartIndex(nodeTable[n].range), rangeToStartIndex(innerRange))

getSuffixRange(nodeTable, n) ==
    LET innerRange == getInnerRange(nodeTable, n)
    IN IF innerRange = NullRange THEN NullRange
       ELSE indexesToRange(rangeToEndIndex(innerRange), rangeToEndIndex(nodeTable[n].range))

\* A TextRange; NullText stands for null.
TextRange(text, range) == [text |-> text, range |-> range]
NullText == TextRange(<<>>, NullRange)

\* getTexts(node): threw, or tokenText, tokenPrefixText and tokenSuffixText.
getTexts(srcLines, nodeTable, n) ==
    LET range == nodeTable[n].range
        prefixRange == getPrefixRange(nodeTable, n)
        suffixRange == getSuffixRange(nodeTable, n)
        \* The text of a prefix or suffix range: null unless the range is non-empty.
        AffixText(affix) ==
            IF affix # NullRange
               /\ compare(rangeToStartIndex(affix), rangeToEndIndex(affix)) = -1
            THEN LET got == getSourceTextFromRange(srcLines, affix)
                 IN [threw |-> got.threw, text |-> TextRange(got.text, affix)]
            ELSE [threw |-> FALSE, text |-> NullText]
        whole == getSourceTextFromRange(srcLines, range)
        prefix == AffixText(prefixRange)
        suffix == AffixText(suffixRange)
    IN IF nodeTable[n].kind \in {"Functions", "Classes"}
          /\ (prefixRange = NullRange \/ suffixRange = NullRange)
       THEN [threw |-> TRUE, tokenText |-> NullText, tokenPrefixText |-> NullText,
             tokenSuffixText |-> NullText]
       ELSE [threw |-> whole.threw \/ prefix.threw \/ suffix.threw,
             tokenText |-> TextRange(whole.text, range),
             tokenPrefixText |-> prefix.text, tokenSuffixText |-> suffix.text]

\* ------------------------------------------------------------------------
\* ASTFaithfulTokenizer
\* ------------------------------------------------------------------------

TokenizationModes ==
    {"NONE", "TOP_LEVEL_ONLY", "FUNCTIONS_AND_CLASSES",
     "FUNCTIONS_AND_CLASSES_AND_ARGUMENTS", "EVERYTHING"}

\* A TreeToken; NullRange and 0 stand for an absent range and originalNode.
TreeToken(stringContents, tokenType, range, originalNode) ==
    [stringContents |-> stringContents, tokenType |-> tokenType, range |-> range,
     originalNode |-> originalNode]

\* What convertIntoTokens answers, with prevEndIndex as it leaves it.
Conversion(prefixTokens, suffixTokens, action, prevEndIndex) ==
    [prefixTokens |-> prefixTokens, suffixTokens |-> suffixTokens, action |-> action,
     prevEndIndex |-> prevEndIndex, threw |-> FALSE]
ConversionThrew(prevEndIndex) ==
    [prefixTokens |-> <<>>, suffixTokens |-> <<>>, action |-> "TERMINATE",
     prevEndIndex |-> prevEndIndex, threw |-> TRUE]

\* getPrefixTokens that never emits the filler before the token.
getPrefixTokensNoFiller(srcLines, prevEndIndex, tokenText, tokenType, originalNode) ==
    LET comparison == compare(prevEndIndex, rangeToStartIndex(tokenText.range))
        token == TreeToken(tokenText.text, tokenType, tokenText.range, originalNode)
    IN IF comparison = 1
       THEN [threw |-> TRUE, tokens |-> <<>>, prevEndIndex |-> prevEndIndex]
       ELSE [threw |-> FALSE, tokens |-> <<token>>,
             prevEndIndex |-> rangeToEndIndex(tokenText.range)]

\* getPrefixTokens: threw, or the tokens and the new prevEndIndex.
getPrefixTokens(srcLines, prevEndIndex, tokenText, tokenType, originalNode) ==
    LET comparison == compare(prevEndIndex, rangeToStartIndex(tokenText.range))
        token == TreeToken(tokenText.text, tokenType, tokenText.range, originalNode)
    IN IF comparison = 1
       THEN [threw |-> TRUE, tokens |-> <<>>, prevEndIndex |-> prevEndIndex]
       ELSE IF comparison = -1
       THEN LET fillRange == indexesToRange(prevEndIndex, rangeToStartIndex(tokenText.range))
                fill == getSourceTextFromRange(srcLines, fillRange)
            IN [threw |-> fill.threw,
                tokens |-> <<TreeToken(fill.text, "OTHERS", fillRange, 0), token>>,
                prevEndIndex |-> rangeToEndIndex(tokenText.range)]
       ELSE [threw |-> FALSE, tokens |-> <<token>>,
             prevEndIndex |-> rangeToEndIndex(tokenText.range)]

\* {prefixTokens: getPrefixTokens(text, ...), action}.
WholeConversion(srcLines, prevEndIndex, text, tokenType, n, action) ==
    LET got == getPrefixTokens(srcLines, prevEndIndex, text, tokenType, n)
    IN IF got.threw THEN ConversionThrew(prevEndIndex)
       ELSE Conversion(got.tokens, <<>>, action, got.prevEndIndex)

\* The prefix of the node through getPrefixTokens and, when there is one, its
\* suffix as the only suffix token.
SplitConversion(srcLines, prevEndIndex, texts, tokenType, n, action) ==
    LET got == getPrefixTokens(srcLines, prevEndIndex, texts.tokenPrefixText, tokenType, n)
    IN IF got.threw THEN ConversionThrew(prevEndIndex)
       ELSE Conversion(got.tokens,
                       IF texts.tokenSuffixText # NullText
                       THEN <<TreeToken(texts.tokenSuffixText.text, tokenType,
                                        texts.tokenSuffixText.range, n)>>
                       ELSE <<>>,
                       action, got.prevEndIndex)

convertTopLevel(srcLines, nodeTable, exclude, prevEndIndex, n, depth, texts) ==
    LET kind == nodeTable[n].kind
    IN IF depth = 0 THEN Conversion(<<>>, <<>>, "RESOLVE", prevEndIndex)
       ELSE IF kind = "References"
       THEN WholeConversion(srcLines, prevEndIndex, texts.tokenText, "REFERENCES", n, "TERMINATE")
       ELSE IF kind = "Comments"
       THEN IF nodeTable[nodeTable[n].parent].kind = "TopLevel"
            THEN WholeConversion(srcLines, prevEndIndex, texts.tokenText, "COMMENTS", n,
                                 "TERMINATE")
            ELSE Conversion(<<>>, <<>>, "TERMINATE", prevEndIndex)
       ELSE IF kind = "Classes"
       THEN IF exclude /\ texts.tokenPrefixText # NullText
            THEN SplitConversion(srcLines, prevEndIndex, texts, "CLASS", n, "TERMINATE")
            ELSE WholeConversion(srcLines, prevEndIndex, texts.tokenText, "CLASS", n,
                                 "TERMINATE")
       ELSE IF kind = "FunctionGroups" THEN Conversion(<<>>, <<>>, "RESOLVE", prevEndIndex)
       ELSE IF kind = "Functions"
       THEN IF exclude /\ texts.tokenPrefixText # NullText
            THEN SplitConversion(srcLines, prevEndIndex, texts, "FUNCTION", n, "TERMINATE")
            ELSE WholeConversion(srcLines, prevEndIndex, texts.tokenText, "FUNCTION", n,
                                 "TERMINATE")
       ELSE ConversionThrew(prevEndIndex)

\* convertFunctionsAndClasses skipping the comment of sibling rank 0 of a
\* FunctionGroups instead of those of higher rank.
convertFunctionsAndClassesSkipsRankZero(srcLines, nodeTable, exclude, prevEndIndex, n, depth, texts) ==
    LET kind == nodeTable[n].kind
    IN IF depth = 0 THEN Conversion(<<>>, <<>>, "RESOLVE", prevEndIndex)
       ELSE IF kind = "References"
       THEN WholeConversion(srcLines, prevEndIndex, texts.tokenText, "REFERENCES", n, "TERMINATE")
       ELSE IF kind = "Comments"
       THEN IF exclude \/ nodeTable[nodeTable[n].parent].kind # "FunctionGroups"
               \/ nodeTable[n].siblingRank # 0
            THEN WholeConversion(srcLines, prevEndIndex, texts.tokenText, "COMMENTS", n,
                                 "TERMINATE")
            ELSE Conversion(<<>>, <<>>, "TERMINATE", prevEndIndex)
       ELSE IF kind = "Classes"
       THEN IF texts.tokenPrefixText # NullText
            THEN SplitConversion(srcLines, prevEndIndex, texts, "CLASS", n, "RESOLVE")
            ELSE WholeConversion(srcLines, prevEndIndex, texts.tokenText, "CLASS", n, "RESOLVE")
       ELSE IF kind = "Attributes"
       THEN WholeConversion(srcLines, prevEndIndex, texts.tokenText, "ATTRIBUTE", n, "TERMINATE")
       ELSE IF kind = "FunctionGroups" THEN Conversion(<<>>, <<>>, "RESOLVE", prevEndIndex)
       ELSE IF kind = "Functions"
       THEN IF exclude /\ texts.tokenPrefixText # NullText
            THEN SplitConversion(srcLines, prevEndIndex, texts, "FUNCTION", n, "TERMINATE")
            ELSE WholeConversion(srcLines, prevEndIndex, texts.tokenText, "FUNCTION", n,
                                 "TERMINATE")
       ELSE ConversionThrew(prevEndIndex)

\* convertFunctionsAndClasses, lines 138-191.
convertFunctionsAndClasses(srcLines, nodeTable, exclude, prevEndIndex, n, depth, texts) ==
    LET kind == nodeTable[n].kind
    IN IF depth = 0 THEN Conversion(<<>>, <<>>, "RESOLVE", prevEndIndex)
       ELSE IF kind = "References"
       THEN WholeConversion(srcLines, prevEndIndex, texts.tokenText, "REFERENCES", n, "TERMINATE")
       ELSE IF kind = "Comments"
       THEN IF exclude \/ nodeTable[nodeTable[n].parent].kind # "FunctionGroups"
               \/ nodeTable[n].siblingRank = 0
            THEN WholeConversion(srcLines, prevEndIndex, texts.tokenText, "COMMENTS", n,
                                 "TERMINATE")
            ELSE Conversion(<<>>, <<>>, "TERMINATE", prevEndIndex)
       ELSE IF kind = "Classes"
       THEN IF texts.tokenPrefixText # NullText
            THEN SplitConversion(srcLines, prevEndIndex, texts, "CLASS", n, "RESOLVE")
            ELSE WholeConversion(srcLines, prevEndIndex, texts.tokenText, "CLASS", n, "RESOLVE")
       ELSE IF kind = "Attributes"
       THEN WholeConversion(srcLines, prevEndIndex, texts.tokenText, "ATTRIBUTE", n, "TERMINATE")
       ELSE IF kind = "FunctionGroups" THEN Conversion(<<>>, <<>>, "RESOLVE", prevEndIndex)
       ELSE IF kind = "Functions"
       THEN IF exclude /\ texts.tokenPrefixText # NullText
            THEN SplitConversion(srcLines, prevEndIndex, texts, "FUNCTION", n, "TERMINATE")
            ELSE WholeConversion(srcLines, prevEndIndex, texts.tokenText, "FUNCTION", n,
                                 "TERMINATE")
       ELSE ConversionThrew(prevEndIndex)

\* The branches convertFunctionsAndClassesAndArguments and convertEverything
\* share, lines 223-255 and 286-318.
convertClassesDown(srcLines, nodeTable, prevEndIndex, n, texts) ==
    LET kind == nodeTable[n].kind
    IN IF kind = "Classes"
       THEN IF texts.tokenPrefixText # NullText
            THEN SplitConversion(srcLines, prevEndIndex, texts, "CLASS", n, "RESOLVE")
            ELSE WholeConversion(srcLines, prevEndIndex, texts.tokenText, "CLASS", n, "RESOLVE")
       ELSE IF kind = "Attributes"
       THEN WholeConversion(srcLines, prevEndIndex, texts.tokenText, "ATTRIBUTE", n, "TERMINATE")
       ELSE IF kind = "FunctionGroups" THEN Conversion(<<>>, <<>>, "RESOLVE", prevEndIndex)
       ELSE IF kind = "Functions" THEN Conversion(<<>>, <<>>, "RESOLVE", prevEndIndex)
       ELSE IF kind = "FunctionDeclaration"
       THEN IF texts.tokenPrefixText # NullText
            THEN SplitConversion(srcLines, prevEndIndex, texts, "FUNCTION_DEFINITION", n,
                                 "RESOLVE")
            ELSE WholeConversion(srcLines, prevEndIndex, texts.tokenText,
                                 "FUNCTION_DEFINITION", n, "TERMINATE")
       ELSE IF kind = "Argument"
       THEN WholeConversion(srcLines, prevEndIndex, texts.tokenText, "ARGUMENT", n, "TERMINATE")
       ELSE ConversionThrew(prevEndIndex)

convertFunctionsAndClassesAndArguments(srcLines, nodeTable, prevEndIndex, n, depth, texts) ==
    LET kind == nodeTable[n].kind
    IN IF depth = 0 THEN Conversion(<<>>, <<>>, "RESOLVE", prevEndIndex)
       ELSE IF kind = "References"
       THEN WholeConversion(srcLines, prevEndIndex, texts.tokenText, "REFERENCES", n, "TERMINATE")
       ELSE IF kind = "Comments"
       THEN IF nodeTable[nodeTable[n].parent].kind = "Functions"
            THEN Conversion(<<>>, <<>>, "TERMINATE", prevEndIndex)
            ELSE WholeConversion(srcLines, prevEndIndex, texts.tokenText, "COMMENTS", n,
                                 "TERMINATE")
       ELSE convertClassesDown(srcLines, nodeTable, prevEndIndex, n, texts)

convertEverything(srcLines, nodeTable, prevEndIndex, n, depth, texts) ==
    LET kind == nodeTable[n].kind
    IN IF depth = 0 THEN Conversion(<<>>, <<>>, "RESOLVE", prevEndIndex)
       ELSE IF kind = "References"
       THEN WholeConversion(srcLines, prevEndIndex, texts.tokenText, "REFERENCES", n, "TERMINATE")
       ELSE IF kind = "Comments"
       THEN IF nodeTable[nodeTable[n].parent].kind # "FunctionGroups"
               \/ nodeTable[n].siblingRank = 0
            THEN WholeConversion(srcLines, prevEndIndex, texts.tokenText, "COMMENTS", n,
                                 "TERMINATE")
            ELSE Conversion(<<>>, <<>>, "TERMINATE", prevEndIndex)
       ELSE convertClassesDown(srcLines, nodeTable, prevEndIndex, n, texts)

\* convertIntoTokens; tz holds the tokenizer's fields and the tree it reads.
convertIntoTokens(tz, prevEndIndex, n, depth, texts) ==
    CASE tz.mode = "NONE" ->
           Conversion(<<TreeToken(texts.tokenText.text, "TOP_LEVEL", texts.tokenText.range, n)>>,
                      <<>>, "TERMINATE", tz.end)
      [] tz.mode = "TOP_LEVEL_ONLY" ->
           convertTopLevel(tz.srcLines, tz.nodes, tz.exclude, prevEndIndex, n, depth, texts)
      [] tz.mode = "FUNCTIONS_AND_CLASSES" ->
           convertFunctionsAndClasses(tz.srcLines, tz.nodes, tz.exclude, prevEndIndex, n,
                                      depth, texts)
      [] tz.mode = "FUNCTIONS_AND_CLASSES_AND_ARGUMENTS" ->
           convertFunctionsAndClassesAndArguments(tz.srcLines, tz.nodes, prevEndIndex, n,
                                                  depth, texts)
      [] tz.mode = "EVERYTHING" ->
           convertEverything(tz.srcLines, tz.nodes, prevEndIndex, n, depth, texts)

\* The tokenizer while it walks: tokenString, prevEndIndex, and whether it threw.
Walk(tokString, prevEndIndex, threw) ==
    [tokenString |-> tokString, prevEndIndex |-> prevEndIndex, threw |-> threw]

\* recursivelyTokenize, lines 264-281: the suffix tokens of a node, after the
\* filler handleFirstSuffixTokenIfNecessary asks for.
PushSuffixTokens(tz, w, suffixTokens) ==
    IF suffixTokens = <<>> THEN w
    ELSE LET range == suffixTokens[1].range
             comparison == compare(w.prevEndIndex, rangeToStartIndex(range))
             fillRange == indexesToRange(w.prevEndIndex, rangeToStartIndex(range))
             fill == getSourceTextFromRange(tz.srcLines, fillRange)
             last == rangeToEndIndex(suffixTokens[Len(suffixTokens)].range)
         IN IF comparison = 1 THEN [w EXCEPT !.threw = TRUE]
            ELSE IF comparison = -1
            THEN IF fill.threw THEN [w EXCEPT !.threw = TRUE]
                 ELSE Walk(w.tokenString \o <<TreeToken(fill.text, "OTHERS", fillRange, 0)>>
                               \o suffixTokens,
                           last, FALSE)
            ELSE Walk(w.tokenString \o suffixTokens, last, FALSE)

\* The value a const declaration holds: the element of a one-element set,
\* evaluated once.
Only(S) == CHOOSE x \in S : TRUE

RECURSIVE recursivelyTokenize(_, _, _, _)
RECURSIVE TokenizeChildren(_, _, _, _, _)

\* The loop over node.listChildren(), lines 252-261, from child i on.
TokenizeChildren(tz, walk, n, i, depth) ==
    Only({ IF w.threw \/ i > Len(tz.nodes[n].children) THEN w
           ELSE TokenizeChildren(tz,
                    recursivelyTokenize(tz, w, tz.nodes[n].children[i], depth + 1),
                    n, i + 1, depth)
           : w \in {walk} })

\* recursivelyTokenize(node, depth, ...) from the walk so far: the
\* replacement token (one without range) when node is nodeToReplace, else
\* getTexts, convertIntoTokens, the prefix tokens, the children when the
\* action is RESOLVE, the suffix tokens.
recursivelyTokenize(tz, walk, n, depth) ==
    IF tz.replace.node # 0 /\ n = tz.replace.node
    THEN [walk EXCEPT !.tokenString =
             Append(@, TreeToken(tz.replace.text, "OTHERS", NullRange, 0))]
    ELSE
    Only({ IF texts.threw THEN [w EXCEPT !.threw = TRUE]
           ELSE Only({ IF conv.threw THEN [w EXCEPT !.threw = TRUE]
                       ELSE Only({ IF inside.threw THEN inside
                                   ELSE PushSuffixTokens(tz, inside, conv.suffixTokens)
                                   : inside \in
                                       { IF conv.action = "RESOLVE"
                                         THEN TokenizeChildren(tz,
                                                  Walk(w.tokenString \o conv.prefixTokens,
                                                       conv.prevEndIndex, FALSE),
                                                  n, 1, depth)
                                         ELSE Walk(w.tokenString \o conv.prefixTokens,
                                                   conv.prevEndIndex, FALSE) } })
                       : conv \in {convertIntoTokens(tz, w.prevEndIndex, n, depth, texts)} })
           : w \in {walk}, texts \in {getTexts(tz.srcLines, tz.nodes, n)} })

\* posttokenize: the rest of the source as one more token.
posttokenize(tz, w) ==
    LET diff == compare(w.prevEndIndex, tz.end)
        rest == getSourceTextFromRange(tz.srcLines, indexesToRange(w.prevEndIndex, tz.end))
    IN IF w.threw THEN w
       ELSE IF diff = -1
       THEN IF rest.threw THEN [w EXCEPT !.threw = TRUE]
            ELSE [w EXCEPT !.tokenString =
                     Append(@, TreeToken(rest.text, "OTHERS",
                                         indexesToRange(w.prevEndIndex, tz.end), 0))]
       ELSE IF diff = 1 THEN [w EXCEPT !.threw = TRUE]
       ELSE w

\* tokenize(tree) of a new ASTFaithfulTokenizer(mode, excludeInnerRangeIfPossible).
tokenize(srcLines, nodeTable, mode, exclude) ==
    LET maxRange == getMaxRange(srcLines)
        tz == [srcLines |-> srcLines, nodes |-> nodeTable, mode |-> mode,
               exclude |-> exclude, start |-> rangeToStartIndex(maxRange),
               end |-> rangeToEndIndex(maxRange), replace |-> NoReplace]
    IN Only({ posttokenize(tz, w) :
                 w \in {recursivelyTokenize(tz, Walk(<<>>, tz.start, FALSE), 1, 0)} })

\* tokenizeReplaceNode(tree, nodeToReplace, replacementString) of a new
\* ASTFaithfulTokenizer(mode, excludeInnerRangeIfPossible).
tokenizeReplaceNode(srcLines, nodeTable, mode, exclude, nodeToReplace, replacementString) ==
    LET maxRange == getMaxRange(srcLines)
        tz == [srcLines |-> srcLines, nodes |-> nodeTable, mode |-> mode,
               exclude |-> exclude, start |-> rangeToStartIndex(maxRange),
               end |-> rangeToEndIndex(maxRange),
               replace |-> [node |-> nodeToReplace, text |-> replacementString]]
    IN Only({ posttokenize(tz, w) :
                 w \in {recursivelyTokenize(tz, Walk(<<>>, tz.start, FALSE), 1, 0)} })

\* flattenFaithfully(tree, mode, excludeInnerRangeIfPossible) on the parsed tree.
PSFlatten ==
    /\ psStatus = "parsed"
    /\ \E mode \in TokenizationModes, exclude \in BOOLEAN :
          \E w \in {tokenize(sourceLines, nodes, mode, exclude)} :
             /\ ftMode' = mode
             /\ ftExclude' = exclude
             /\ ftThrew' = w.threw
             /\ ftTokens' = IF w.threw THEN <<>> ELSE w.tokenString
    /\ psStatus' = "flattened"
    /\ UNCHANGED <<psCommentBeforeFunction, psVocabulary, psError, sourceLines, sourceTokens,
                   positionMap, nodes, frame, pending, ftReplace>>

\* new ASTFaithfulTokenizer(mode, exclude).tokenizeReplaceNode(tree, node, s)
\* on the parsed tree, for a node of the tree and a replacement string that
\* is no text of the source.
PSReplace ==
    /\ psStatus = "parsed"
    /\ \E mode \in TokenizationModes, exclude \in BOOLEAN,
          node \in 1..Len(nodes), s \in { <<"r">> } :
          /\ nodes[node].parent # 0 \/ node = 1
          /\ \E w \in {tokenizeReplaceNode(sourceLines, nodes, mode, exclude, node, s)} :
                /\ ftMode' = mode
                /\ ftExclude' = exclude
                /\ ftReplace' = [node |-> node, text |-> s]
                /\ ftThrew' = w.threw
                /\ ftTokens' = IF w.threw THEN <<>> ELSE w.tokenString
    /\ psStatus' = "replaced"
    /\ UNCHANGED <<psCommentBeforeFunction, psVocabulary, psError, sourceLines, sourceTokens,
                   positionMap, nodes, frame, pending>>

\* ------------------------------------------------------------------------
\* Idle values of each component
\* ------------------------------------------------------------------------

EMIdle ==
    /\ emKind = "ExpressionMatcher"
    /\ emExprs = <<>>
    /\ emState = "new"
    /\ emPM = <<>>
    /\ emFed = <<>>
    /\ emRet = 0
    /\ emThrew = FALSE

BMIdle ==
    /\ bmPairs = <<>>
    /\ bmState = "new"
    /\ bmO2C = <<>>
    /\ bmC2O = <<>>
    /\ bmStack = <<>>
    /\ bmRet = 0
    /\ bmThrew = FALSE
    /\ bmLastCh = ""
    /\ bmOpens = 0
    /\ bmCloses = 0
    /\ bmCalls = 0
    /\ bmThrows = 0
    /\ bmExample = <<>>

TKIdle ==
    /\ tkLexer = "generic"
    /\ tkMode = "free"
    /\ tkLines = <<>>
    /\ tokenString = <<>>
    /\ stringBuffer = <<>>
    /\ charIdx = 0
    /\ tokStartIdx = 0
    /\ ended = FALSE
    /\ tsLex = TSInitial
    /\ tkFed = <<>>
    /\ tkThrew = FALSE
    /\ tkLastCall = "none"
    /\ tkResets = 0
    /\ tkDirtyReset = FALSE

PSIdle ==
    /\ psCommentBeforeFunction = FALSE
    /\ psVocabulary = {}
    /\ psStatus = "new"
    /\ psError = "none"
    /\ sourceLines = <<>>
    /\ sourceTokens = <<>>
    /\ positionMap = <<>>
    /\ nodes = <<>>
    /\ frame = NoFrame
    /\ pending = <<>>
    /\ ftMode = "none"
    /\ ftExclude = FALSE
    /\ ftTokens = <<>>
    /\ ftThrew = FALSE
    /\ ftReplace = NoReplace

TSIdle == tsd = "none" /\ tsTrees = <<>>

PYIdle == pyd = "none" /\ creationInfo = <<>> /\ nodeInfo = <<>>

\* ------------------------------------------------------------------------
\* Specifications
\* ------------------------------------------------------------------------

InitEM == EMInit /\ BMIdle /\ TKIdle /\ PSIdle /\ TSIdle /\ PYIdle
NextEM ==
    \/ EMConstruct /\ UNCHANGED <<bmVars, tkVars, psVars, tsVars, pyVars>>
    \/ EMNext /\ UNCHANGED <<bmVars, tkVars, psVars, tsVars, pyVars>>
    \/ EMReset /\ UNCHANGED <<bmVars, tkVars, psVars, tsVars, pyVars>>
SpecEM == InitEM /\ [][NextEM]_vars

InitBM == BMInit /\ EMIdle /\ TKIdle /\ PSIdle /\ TSIdle /\ PYIdle
NextBM ==
    \/ BMConstruct /\ UNCHANGED <<emVars, tkVars, psVars, tsVars, pyVars>>
    \/ BMNext /\ UNCHANGED <<emVars, tkVars, psVars, tsVars, pyVars>>
    \/ BMReset /\ UNCHANGED <<emVars, tkVars, psVars, tsVars, pyVars>>
SpecBM == InitBM /\ [][NextBM]_vars

InitTok == TKInit /\ EMIdle /\ BMIdle /\ PSIdle /\ TSIdle /\ PYIdle
NextTok ==
    \/ TKNext /\ UNCHANGED <<emVars, bmVars, psVars, tsVars, pyVars>>
    \/ TKNextNull /\ UNCHANGED <<emVars, bmVars, psVars, tsVars, pyVars>>
    \/ TKReset /\ UNCHANGED <<emVars, bmVars, psVars, tsVars, pyVars>>
SpecTok == InitTok /\ [][NextTok]_vars

InitParse == PSInit /\ EMIdle /\ BMIdle /\ TKIdle /\ TSIdle /\ PYIdle
NextParse ==
    \/ PSParse /\ UNCHANGED <<emVars, bmVars, tkVars, tsVars, pyVars>>
    \/ PSDetect /\ UNCHANGED <<emVars, bmVars, tkVars, tsVars, pyVars>>
    \/ PSConclude /\ UNCHANGED <<emVars, bmVars, tkVars, tsVars, pyVars>>
    \/ PSResolve /\ UNCHANGED <<emVars, bmVars, tkVars, tsVars, pyVars>>
    \/ PSAttach /\ UNCHANGED <<emVars, bmVars, tkVars, tsVars, pyVars>>
    \/ PSFlatten /\ UNCHANGED <<emVars, bmVars, tkVars, tsVars, pyVars>>
SpecParse == InitParse /\ [][NextParse]_vars

\* parse() followed by tokenizeReplaceNode() on the tree.
NextReplace ==
    \/ PSParse /\ UNCHANGED <<emVars, bmVars, tkVars, tsVars, pyVars>>
    \/ PSDetect /\ UNCHANGED <<emVars, bmVars, tkVars, tsVars, pyVars>>
    \/ PSConclude /\ UNCHANGED <<emVars, bmVars, tkVars, tsVars, pyVars>>
    \/ PSResolve /\ UNCHANGED <<emVars, bmVars, tkVars, tsVars, pyVars>>
    \/ PSAttach /\ UNCHANGED <<emVars, bmVars, tkVars, tsVars, pyVars>>
    \/ PSReplace /\ UNCHANGED <<emVars, bmVars, tkVars, tsVars, pyVars>>
SpecReplace == InitParse /\ [][NextReplace]_vars


\* ------------------------------------------------------------------------
\* TypeScriptParser: the detectors of a function
\* ------------------------------------------------------------------------

MaxBodyTokens == 2     \* most tokens between the braces of an enumerated function

\* The pairs of functRetTypeBracesMatcher and of typeBraces.
TSTypeBraces == BMStandard \o << [opening |-> <<"<">>, closing |-> <<">">>] >>

\* The token handed to a detector at the conclusion (null).
NullSourceToken == Token("null", <<>>, -1, -1)

\* A string | null that is null.
NullString == <<"null">>

\* String.prototype.trim() leaves nothing.
TrimsToEmpty(s) == \A i \in 1..Len(s) : s[i] \in {" ", "\t", "\n", "\r"}

\* The fields of a TypeScriptParser as the constructor sets them before its
\* resetDetectionState call. A BracesMatcher is its stack; of the
\* argumentMatcher the fields that decide what it returns are kept; the
\* cbSymbTokenStream holds the type and the contents of its tokens. The
\* strings that only go into nodeCreationInformation (functName, functType,
\* assignmentBuffer) are left out.
TypeScriptParserNew ==
    [parseType |-> "TOP_LEVEL", bracesMatcher |-> <<>>, curlyBracesMatcher |-> <<>>,
     argumentMatcher |-> [state |-> "READING_NAME", nameBuffer |-> <<>>,
                          typeBuffer |-> NullString,
                          typeBracesMatcher |-> <<>>, assignmentBracesMatcher |-> <<>>],
     globalDetectionStartIndex |-> -1, mostRecentStatementsEndTokIdx |-> -1,
     continuousSpacingsAfterTerminateStatements |-> TRUE,
     functOpeningBracket |-> -1, functClosingBracket |-> -1,
     functOpeningBrace |-> -1, functClosingBrace |-> -1,
     functRetTypeBracesMatcher |-> <<>>,
     functPreviousImmediatelyColon |-> FALSE,
     functPreviousImmediatelyClosingBracket |-> FALSE,
     functBodyHasOthers |-> FALSE, functBodyHasPreviousContent |-> FALSE,
     functDeclStartParseIdx |-> -1, functDeclParsing |-> FALSE,
     codeBlocksHasComments |-> FALSE, codeBlocksSymbolToDetect |-> "STATEMENTS_FILLER",
     codeBlocksLastSymbolDetectionEnd |-> -1, codeBlocksHasContents |-> FALSE,
     codeBlocksStartOfPotentialDetection |-> -1,
     cbSymbSpacesTextsOnly |-> TRUE, cbSymbAttemptedDetect |-> FALSE,
     cbSymbStringStream |-> <<>>, cbSymbTokenStream |-> <<>>,
     cbSymbClassOpeningBrace |-> -1, cbSymbClassClosingBrace |-> -1,
     cbSymbClassDefnText |-> NullString,
     cbSymbFuncOpeningBracket |-> -1, cbSymbFuncClosingBracket |-> -1,
     cbSymbFuncOpeningBrace |-> -1, cbSymbFuncClosingBrace |-> -1,
     cbSymbFuncDefnText |-> NullString, cbSymbFuncPreviousImmediatelyColon |-> FALSE,
     cbSymbFuncRetTypeBracesMatcher |-> <<>>]

\* TypeScriptVarDeclMatcher.reset(): the matcher it leaves, whether it
\* returns a declaration, and the type buffer the type of the declaration
\* is trimmed from (null when no token was read as type).
TypeScriptVarDeclMatcher_reset(m) ==
    [m |-> [state |-> "READING_NAME", nameBuffer |-> NullString,
            typeBuffer |-> NullString,
            typeBracesMatcher |-> <<>>, assignmentBracesMatcher |-> <<>>],
     found |-> ~(m.nameBuffer = NullString \/ TrimsToEmpty(m.nameBuffer)),
     type |-> m.typeBuffer,
     threw |-> FALSE]

\* TypeScriptVarDeclMatcher.next(tok).
TypeScriptVarDeclMatcher_next(m, tok) ==
    LET s == tok.stringContents
        Stay(n) == [m |-> n, found |-> FALSE, type |-> NullString, threw |-> FALSE]
        typeMaps == BMCtor(TSTypeBraces)
        typed == [m EXCEPT !.typeBuffer = IF @ = NullString THEN s ELSE @ \o s]
        assignmentMaps == BMCtor(BMStandard)
        isBraceType == Len(s) = 1 /\ s[1] \in (DOMAIN typeMaps.o2c \cup DOMAIN typeMaps.c2o)
        isBraceAssignment ==
            Len(s) = 1 /\ s[1] \in (DOMAIN assignmentMaps.o2c \cup DOMAIN assignmentMaps.c2o)
    IN CASE m.state = "READING_NAME" ->
              IF s = <<":">> THEN Stay([m EXCEPT !.state = "READING_TYPE"])
              ELSE IF s = <<"=">> THEN Stay([m EXCEPT !.state = "READING_ASSIGNMENT"])
              ELSE IF s \in {<<";">>, <<",">>, <<")">>} THEN TypeScriptVarDeclMatcher_reset(m)
              ELSE Stay([m EXCEPT !.nameBuffer = IF @ # NullString THEN @ \o s ELSE s])
         [] m.state = "READING_TYPE" ->
              IF s = <<"=">> /\ Len(m.typeBracesMatcher) = 0
              THEN Stay([m EXCEPT !.state = "READING_ASSIGNMENT"])
              ELSE IF s \in {<<";">>, <<",">>, <<")">>} /\ Len(m.typeBracesMatcher) = 0
              THEN TypeScriptVarDeclMatcher_reset(m)
              ELSE IF ~isBraceType THEN Stay(typed)
              ELSE LET r == BMNextResult(typeMaps.o2c, typeMaps.c2o, m.typeBracesMatcher, s[1])
                   IN [m |-> [typed EXCEPT !.typeBracesMatcher = r.stack],
                       found |-> FALSE, type |-> NullString, threw |-> r.threw]
         [] m.state = "READING_ASSIGNMENT" ->
              IF s \in {<<";">>, <<",">>, <<")">>} /\ Len(m.assignmentBracesMatcher) = 0
              THEN TypeScriptVarDeclMatcher_reset(m)
              ELSE IF ~isBraceAssignment THEN Stay(m)
              ELSE LET r == BMNextResult(assignmentMaps.o2c, assignmentMaps.c2o,
                                         m.assignmentBracesMatcher, s[1])
                   IN [m |-> [m EXCEPT !.assignmentBracesMatcher = r.stack],
                       found |-> FALSE, type |-> NullString, threw |-> r.threw]

\* resetDetectionState that leaves the bracket and brace positions of a
\* function as they are.
TypeScriptParser_resetDetectionStateKeepsPositions(d, startTokIndex, parsingNonTerminal) ==
    LET common == [d EXCEPT !.globalDetectionStartIndex = startTokIndex,
                            !.parseType = parsingNonTerminal,
                            !.bracesMatcher = <<>>,
                            !.curlyBracesMatcher = <<>>,
                            !.argumentMatcher = TypeScriptVarDeclMatcher_reset(@).m,
                            !.mostRecentStatementsEndTokIdx = startTokIndex - 1,
                            !.continuousSpacingsAfterTerminateStatements = TRUE]
    IN CASE parsingNonTerminal = "FUNCTIONS" ->
              [common EXCEPT !.functRetTypeBracesMatcher = <<>>,
                             !.functPreviousImmediatelyColon = FALSE,
                             !.functPreviousImmediatelyClosingBracket = FALSE]
         [] parsingNonTerminal = "FUNCTION_BODY" ->
              [common EXCEPT !.functBodyHasOthers = FALSE,
                             !.functBodyHasPreviousContent = FALSE]
         [] parsingNonTerminal = "FUNCTION_DECLARATION" ->
              [common EXCEPT !.functDeclStartParseIdx = -1,
                             !.functDeclParsing = FALSE]
         [] parsingNonTerminal \in {"TOP_LEVEL", "CLASSES"} ->
              [common EXCEPT !.codeBlocksHasComments = FALSE,
                             !.codeBlocksSymbolToDetect = "STATEMENTS_FILLER",
                             !.codeBlocksLastSymbolDetectionEnd = startTokIndex - 1,
                             !.codeBlocksHasContents = FALSE,
                             !.codeBlocksStartOfPotentialDetection = -1]
         [] OTHER -> common

\* TypeScriptParser.resetDetectionState.
TypeScriptParser_resetDetectionState(d, startTokIndex, parsingNonTerminal) ==
    LET common == [d EXCEPT !.globalDetectionStartIndex = startTokIndex,
                            !.parseType = parsingNonTerminal,
                            !.bracesMatcher = <<>>,
                            !.curlyBracesMatcher = <<>>,
                            !.argumentMatcher = TypeScriptVarDeclMatcher_reset(@).m,
                            !.mostRecentStatementsEndTokIdx = startTokIndex - 1,
                            !.continuousSpacingsAfterTerminateStatements = TRUE]
    IN CASE parsingNonTerminal = "FUNCTIONS" ->
              [common EXCEPT !.functOpeningBracket = -1,
                             !.functClosingBracket = -1,
                             !.functOpeningBrace = -1,
                             !.functClosingBrace = -1,
                             !.functRetTypeBracesMatcher = <<>>,
                             !.functPreviousImmediatelyColon = FALSE,
                             !.functPreviousImmediatelyClosingBracket = FALSE]
         [] parsingNonTerminal = "FUNCTION_BODY" ->
              [common EXCEPT !.functBodyHasOthers = FALSE,
                             !.functBodyHasPreviousContent = FALSE]
         [] parsingNonTerminal = "FUNCTION_DECLARATION" ->
              [common EXCEPT !.functDeclStartParseIdx = -1,
                             !.functDeclParsing = FALSE]
         [] parsingNonTerminal \in {"TOP_LEVEL", "CLASSES"} ->
              [common EXCEPT !.codeBlocksHasComments = FALSE,
                             !.codeBlocksSymbolToDetect = "STATEMENTS_FILLER",
                             !.codeBlocksLastSymbolDetectionEnd = startTokIndex - 1,
                             !.codeBlocksHasContents = FALSE,
                             !.codeBlocksStartOfPotentialDetection = -1]
         [] OTHER -> common

\* What a detector call leaves: the parser, the directive, and the exception.
Detection(d, dir) == [d |-> d, dir |-> dir, threw |-> FALSE, error |-> "none"]
DetectionThrew(d, error) == [d |-> d, dir |-> NullSAD, threw |-> TRUE, error |-> error]

\* updateBracesAndTerminateStatementsState with checkCodeEndCondition.
updateBracesAndTerminateStatementsState(d, token, currentTokIndex) ==
    LET s == token.stringContents
        maps == BMCtor(BMStandard)
        checkCodeEndCondition ==
            \/ s = <<"\n">> /\ Len(d.bracesMatcher) = 0
            \/ s = <<";">> /\ Len(d.curlyBracesMatcher) = 0
    IN IF token.tokenType = "SPACINGS"
       THEN IF checkCodeEndCondition
            THEN Detection([d EXCEPT !.bracesMatcher =
                                         IF s = <<";">> /\ Len(@) > 0 THEN <<>> ELSE @,
                                     !.mostRecentStatementsEndTokIdx = currentTokIndex,
                                     !.continuousSpacingsAfterTerminateStatements = TRUE],
                           NullSAD)
            ELSE Detection(d, NullSAD)
       ELSE IF token.tokenType = "BRACES"
       THEN LET b == BMNextResult(maps.o2c, maps.c2o, d.bracesMatcher, s[1])
                c == BMNextResult(maps.o2c, maps.c2o, d.curlyBracesMatcher, s[1])
                curly == s \in {<<"{">>, <<"}">>}
            IN IF b.threw THEN DetectionThrew(d, "CodeParsingError")
               ELSE IF curly /\ c.threw
               THEN DetectionThrew([d EXCEPT !.bracesMatcher = b.stack], "CodeParsingError")
               ELSE Detection([d EXCEPT !.bracesMatcher = b.stack,
                                        !.curlyBracesMatcher = IF curly THEN c.stack ELSE @,
                                        !.continuousSpacingsAfterTerminateStatements = FALSE],
                              NullSAD)
       ELSE Detection([d EXCEPT !.continuousSpacingsAfterTerminateStatements = FALSE],
                      NullSAD)

\* TypeScriptParser.detectFunctionsSymbol.
TypeScriptParser_detectFunctionsSymbol(d, token, currentTokIndex) ==
    LET s == token.stringContents
        maps == BMCtor(TSTypeBraces)
        opensBody == /\ Len(d.functRetTypeBracesMatcher) = 0
                     /\ ~d.functPreviousImmediatelyColon
                     /\ s = <<"{">>
        \* The branch taken on the four indices.
        branched ==
            IF d.functOpeningBracket = -1
            THEN Detection(IF s = <<"(">> /\ Len(d.bracesMatcher) = 0
                           THEN [d EXCEPT !.functOpeningBracket = currentTokIndex] ELSE d,
                           NullSAD)
            ELSE IF d.functClosingBracket = -1
            THEN Detection(IF s = <<")">> /\ Len(d.bracesMatcher) = 1
                           THEN [d EXCEPT !.functClosingBracket = currentTokIndex,
                                          !.functPreviousImmediatelyClosingBracket = TRUE]
                           ELSE d,
                           NullSAD)
            ELSE IF d.functOpeningBrace = -1
            THEN LET opened == IF opensBody
                               THEN [d EXCEPT !.functOpeningBrace = currentTokIndex,
                                              !.functRetTypeBracesMatcher = <<>>]
                               ELSE d
                     retValue == IF opensBody
                                 THEN SymbolAdditionDirective("FUNCTION_DECLARATION",
                                         TokenRange(d.globalDetectionStartIndex, currentTokIndex),
                                         "FILLER", 1, -1)
                                 ELSE NullSAD
                     r == BMNextResult(maps.o2c, maps.c2o, opened.functRetTypeBracesMatcher, s[1])
                 IN IF token.tokenType = "BRACES" \/ s \in {<<"<">>, <<">">>}
                    THEN IF r.threw THEN DetectionThrew(opened, "CodeParsingError")
                         ELSE Detection([opened EXCEPT !.functRetTypeBracesMatcher = r.stack],
                                        retValue)
                    ELSE Detection(opened, retValue)
            ELSE IF d.functClosingBrace = -1
            THEN Detection(IF Len(d.curlyBracesMatcher) = 1 /\ s = <<"}">>
                           THEN [d EXCEPT !.functClosingBrace = currentTokIndex] ELSE d,
                           NullSAD)
            ELSE Detection(d, NullSAD)
        flagged ==
            [branched.d EXCEPT
                !.functPreviousImmediatelyColon =
                    IF s = <<":">> THEN TRUE
                    ELSE IF token.tokenType # "SPACINGS" THEN FALSE ELSE @,
                !.functPreviousImmediatelyClosingBracket =
                    IF token.tokenType # "SPACINGS" THEN FALSE ELSE @]
        updated == updateBracesAndTerminateStatementsState(flagged, token, currentTokIndex)
    IN IF token = NullSourceToken
       THEN Detection(d, SymbolAdditionDirective("FUNCTION_BODY", NullTokenRange, "FILLER", 1, -1))
       ELSE IF branched.threw THEN branched
       ELSE IF updated.threw THEN updated
       ELSE Detection(updated.d, branched.dir)

\* TypeScriptParser.detectFunctionBodySymbol.
TypeScriptParser_detectFunctionBodySymbol(d, token, currentTokIndex) ==
    LET s == token.stringContents
        fillerType == IF d.functBodyHasOthers THEN "STATEMENTS_FILLER" ELSE "FILLER"
        isBlockComment == /\ token.tokenType = "MULTILINE_COMMENTS_OR_STRINGS"
                          /\ Len(s) >= 2
                          /\ SubSeq(s, 1, 2) = <<"/", "*">>
                          /\ SubSeq(s, Len(s) - 1, Len(s)) = <<"*", "/">>
        Comment(symbolType) ==
            Detection([d EXCEPT !.functBodyHasOthers = FALSE,
                                !.functBodyHasPreviousContent = FALSE],
                      IF d.functBodyHasPreviousContent
                      THEN SymbolAdditionDirective(fillerType, NullTokenRange, symbolType, -1, -1)
                      ELSE SymbolAdditionDirective(symbolType, NullTokenRange, "undefined", -1, -1))
    IN IF token = NullSourceToken
       THEN Detection(d, IF d.functBodyHasPreviousContent
                         THEN SymbolAdditionDirective(fillerType, NullTokenRange, "undefined", -1, -1)
                         ELSE NullSAD)
       ELSE IF token.tokenType = "SINGLELINE_COMMENTS" THEN Comment("COMMENT_SINGLELINE")
       ELSE IF isBlockComment THEN Comment("COMMENT_MULTILINE")
       ELSE Detection([d EXCEPT !.functBodyHasPreviousContent = TRUE,
                                !.functBodyHasOthers =
                                    IF token.tokenType # "SPACINGS" THEN TRUE ELSE @],
                      NullSAD)

\* TypeScriptParser.detectFunctionDeclarationSymbol.
TypeScriptParser_detectFunctionDeclarationSymbol(d, token, currentTokIndex) ==
    LET Argument(e) == SymbolAdditionDirective("FILLER", NullTokenRange, "ARGUMENT",
                          currentTokIndex - e.functDeclStartParseIdx - 1, 1)
        fed == IF d.functDeclParsing
               THEN TypeScriptVarDeclMatcher_next(d.argumentMatcher, token)
               ELSE [m |-> d.argumentMatcher, found |-> FALSE, type |-> NullString,
                     threw |-> FALSE]
        first == Detection([d EXCEPT !.argumentMatcher = fed.m,
                                     !.functDeclStartParseIdx =
                                         IF fed.found THEN currentTokIndex ELSE @],
                           IF fed.found THEN Argument(d) ELSE NullSAD)
        updated == updateBracesAndTerminateStatementsState(first.d, token, currentTokIndex)
        e == updated.d
        closed == TypeScriptVarDeclMatcher_reset(e.argumentMatcher)
    IN IF token = NullSourceToken
       THEN Detection(d, SymbolAdditionDirective("FILLER", NullTokenRange, "undefined", -1, -1))
       ELSE IF fed.threw THEN DetectionThrew(first.d, "Error")
       ELSE IF updated.threw THEN updated
       ELSE IF e.functDeclParsing /\ Len(e.bracesMatcher) = 0
       THEN Detection([e EXCEPT !.functDeclParsing = FALSE,
                                !.argumentMatcher = closed.m,
                                !.functDeclStartParseIdx =
                                    IF closed.found THEN currentTokIndex ELSE @],
                      IF closed.found THEN Argument(e) ELSE first.dir)
       ELSE IF Len(e.bracesMatcher) > 0 /\ e.functDeclStartParseIdx = -1
       THEN Detection([e EXCEPT !.functDeclStartParseIdx = currentTokIndex,
                                !.functDeclParsing = TRUE],
                      first.dir)
       ELSE Detection(e, first.dir)

\* The switch of updateTokenStreamState, lines 316-333, for the three
\* non-terminals of a function.
TypeScriptParser_detect(d, nonTerminal, token, currentTokIndex) ==
    CASE nonTerminal = "FUNCTIONS" ->
            TypeScriptParser_detectFunctionsSymbol(d, token, currentTokIndex)
      [] nonTerminal = "FUNCTION_BODY" ->
            TypeScriptParser_detectFunctionBodySymbol(d, token, currentTokIndex)
      [] nonTerminal = "FUNCTION_DECLARATION" ->
            TypeScriptParser_detectFunctionDeclarationSymbol(d, token, currentTokIndex)

\* The statements detectSymbolsAsCodeBlocks concludes as FUNCTIONS at top
\* level, as the tokens the TypeScriptTokenizer makes of them: the keyword, a
\* name, the brackets with or without an argument, the braces around at most
\* MaxBodyTokens tokens, and the spacing the line may end with.
TSFunctionStatements ==
    LET Word(tokenType, stringContents) ==
            [tokenType |-> tokenType, stringContents |-> stringContents]
        keyword == Word("OTHERS", <<"f", "u", "n", "c", "t", "i", "o", "n">>)
        space == Word("SPACINGS", <<" ">>)
        heads == { <<keyword, space, Word("OTHERS", <<"f">>), Word("BRACES", <<"(">>),
                     Word("BRACES", <<")">>), space>>,
                   <<keyword, space, Word("OTHERS", <<"f">>), Word("BRACES", <<"(">>),
                     Word("OTHERS", <<"a">>), Word("BRACES", <<")">>)>> }
        inside == { space, Word("OTHERS", <<"x">>),
                    Word("MULTILINE_COMMENTS_OR_STRINGS", <<"/", "*", "c", "*", "/">>) }
        bodies == UNION { [1..n -> inside] : n \in 1..MaxBodyTokens }
    IN { head \o <<Word("BRACES", <<"{">>)>> \o body \o <<Word("BRACES", <<"}">>)>> \o tail :
            head \in heads, body \in bodies, tail \in {<<>>, <<space>>} }

\* The tokens of a line of words and of the "\n" parse() feeds after it.
TSLineTokens(words) ==
    LET fed == words \o <<[tokenType |-> "SPACINGS", stringContents |-> <<"\n">>]>>
        startOf[i \in 1..(Len(fed) + 1)] ==
            IF i = 1 THEN 0 ELSE startOf[i - 1] + Len(fed[i - 1].stringContents)
    IN [i \in 1..Len(fed) |->
          Token(fed[i].tokenType, fed[i].stringContents, startOf[i], startOf[i + 1])]

\* parse() of a one-line source that is a function statement, up to the first
\* line of its parseNonTerminal(FUNCTIONS, ...) call: the top level is attached
\* (the Functions node in its FunctionGroups).
TSTopLevelParsed(toks) ==
    LET n == Len(toks) - 1
        openingBrace == CHOOSE i \in 1..n : toks[i].stringContents = <<"{">>
        closingBrace == CHOOSE i \in 1..n :
                           /\ toks[i].stringContents = <<"}">>
                           /\ \A j \in (i + 1)..n : toks[j].stringContents # <<"}">>
        text[i \in 0..n] == IF i = 0 THEN <<>> ELSE text[i - 1] \o toks[i].stringContents
        pmap == PSPositionsFrom(<<text[n]>>, 0)
        range == resolveRange(toks, pmap, TokenRange(0, n))
        funcInnerRange == getRange(pmap, toks[openingBrace + 1].start, toks[closingBrace].start)
        made == <<Node("TopLevel", getMaxRange(<<text[n]>>), FALSE),
                  [Node("Functions", range, FALSE) EXCEPT !.innerRangeOverride = funcInnerRange]>>
    IN [sourceLines |-> <<text[n]>>, positionMap |-> pmap,
        nodes |-> addFunctionGroups(made, 1, range, <<2>>),
        frame |-> Frame("FUNCTIONS", 2, TokenRange(0, n), 1)]

\* A new TypeScriptParser in its first parse() call, at the first line of the
\* parseNonTerminal(FUNCTIONS, ...) call: the detection state is reset for
\* FUNCTIONS.
TSFunctionsInit ==
    /\ \E words \in TSFunctionStatements :
          /\ sourceTokens = TSLineTokens(words)
          /\ \E p \in {TSTopLevelParsed(TSLineTokens(words))} :
                /\ sourceLines = p.sourceLines
                /\ positionMap = p.positionMap
                /\ nodes = p.nodes
                /\ frame = p.frame
    /\ pending = <<>>
    /\ tsd = TypeScriptParser_resetDetectionState(TypeScriptParserNew, 0, "FUNCTIONS")
    /\ tsTrees = <<>>
    /\ psCommentBeforeFunction = TRUE
    /\ psVocabulary = {"FUNCTION_DECLARATION", "FUNCTION_BODY", "ARGUMENT", "FILLER",
                       "STATEMENTS_FILLER", "COMMENT_SINGLELINE", "COMMENT_MULTILINE"}
    /\ psStatus = "parsing"
    /\ psError = "none"
    /\ ftMode = "none"
    /\ ftExclude = FALSE
    /\ ftTokens = <<>>
    /\ ftThrew = FALSE
    /\ ftReplace = NoReplace

\* parse() returned its tree and is called again on the same parser with the
\* same source: the fields of AbstractParser are overwritten (lines 25-61) and
\* the detection state the first call left goes through the
\* resetDetectionState calls of the parseNonTerminal calls (line 154).
TSParseAgain ==
    /\ psStatus = "parsed"
    /\ tsTrees = <<>>
    /\ tsTrees' = <<nodes>>
    /\ \E p \in {TSTopLevelParsed(sourceTokens)} :
          /\ sourceLines' = p.sourceLines
          /\ positionMap' = p.positionMap
          /\ nodes' = p.nodes
          /\ frame' = p.frame
    /\ pending' = <<>>
    /\ psStatus' = "parsing"
    /\ tsd' = TypeScriptParser_resetDetectionState(
                 TypeScriptParser_resetDetectionState(tsd, 0, "TOP_LEVEL"), 0, "FUNCTIONS")
    /\ UNCHANGED <<psCommentBeforeFunction, psVocabulary, psError, sourceTokens,
                   ftMode, ftExclude, ftTokens, ftThrew, ftReplace>>

\* One iteration of the loop of parseNonTerminal, lines 164-173, with the
\* detectors of the TypeScriptParser.
TSDetect ==
    /\ psStatus = "parsing"
    /\ ~frame.concluded
    /\ frame.currentTokIndex < frame.endTok
    /\ \E a \in {TypeScriptParser_detect(tsd, frame.nonTerminal,
                    sourceTokens[frame.currentTokIndex + 1], frame.currentTokIndex)} :
          /\ tsd' = a.d
          /\ UNCHANGED tsTrees
          /\ IF a.threw THEN PSThrow(a.error)
             ELSE \E r \in {updateTokenStreamState(
                              [frame EXCEPT !.tokenBuffer = Append(@, frame.currentTokIndex)],
                              a.dir)} :
                     IF r.threw THEN PSThrow(r.error)
                     ELSE /\ frame' = [r.f EXCEPT !.currentTokIndex = @ + 1]
                          /\ UNCHANGED <<psStatus, psError, nodes, pending>>
    /\ UNCHANGED <<psCommentBeforeFunction, psVocabulary, sourceLines, sourceTokens, positionMap,
                   ftMode, ftExclude, ftTokens, ftThrew, ftReplace>>

\* The concluding call, the check for non-parsed tokens and the validation,
\* lines 175-201, with the detectors of the TypeScriptParser.
TSConclude ==
    /\ psStatus = "parsing"
    /\ ~frame.concluded
    /\ frame.currentTokIndex >= frame.endTok
    /\ \E a \in {TypeScriptParser_detect(tsd, frame.nonTerminal, NullSourceToken,
                                         frame.currentTokIndex)} :
          /\ tsd' = a.d
          /\ UNCHANGED tsTrees
          /\ IF a.threw THEN PSThrow(a.error)
             ELSE \E r \in {updateTokenStreamState(frame, a.dir)} :
                     IF r.threw THEN PSThrow(r.error)
                     ELSE IF r.f.parsedEndTokIndex # frame.endTok
                     THEN PSThrow("CodeParsingError")
                     ELSE IF ~validateParsingState(frame.nonTerminal, r.f.state)
                     THEN PSThrow("CodeParserImplError")
                     ELSE /\ frame' = [r.f EXCEPT !.concluded = TRUE]
                          /\ UNCHANGED <<psStatus, psError, nodes, pending>>
    /\ UNCHANGED <<psCommentBeforeFunction, psVocabulary, sourceLines, sourceTokens, positionMap,
                   ftMode, ftExclude, ftTokens, ftThrew, ftReplace>>

\* Line 154 of the parseNonTerminal call that PSAttach starts.
TSAttach ==
    /\ PSAttach
    /\ tsd' = IF psStatus' = "parsing"
              THEN TypeScriptParser_resetDetectionState(tsd, frame'.startTok, frame'.nonTerminal)
              ELSE tsd
    /\ UNCHANGED tsTrees

InitTypeScript == TSFunctionsInit /\ EMIdle /\ BMIdle /\ TKIdle /\ PYIdle
NextTypeScript ==
    \/ TSDetect /\ UNCHANGED <<emVars, bmVars, tkVars, pyVars>>
    \/ TSConclude /\ UNCHANGED <<emVars, bmVars, tkVars, pyVars>>
    \/ PSResolve /\ UNCHANGED <<emVars, bmVars, tkVars, tsVars, pyVars>>
    \/ TSAttach /\ UNCHANGED <<emVars, bmVars, tkVars, pyVars>>
    \/ TSParseAgain /\ UNCHANGED <<emVars, bmVars, tkVars, pyVars>>
SpecTypeScript == InitTypeScript /\ [][NextTypeScript]_vars

\* ------------------------------------------------------------------------
\* parseNonTerminal from the validated symbols on
\* ------------------------------------------------------------------------

MaxAttachSymbols == 3   \* most symbols of an enumerated validated production

\* The symbols a validated TOP_LEVEL, CLASSES or FUNCTION_BODY production is
\* enumerated over.
PSValidSymbols(nonTerminal) ==
    CASE nonTerminal = "TOP_LEVEL" ->
            {"FILLER", "STATEMENTS_FILLER", "COMMENT_SINGLELINE", "COMMENT_MULTILINE",
             "REFERENCES", "FUNCTIONS"}
      [] nonTerminal = "CLASSES" ->
            {"FILLER", "STATEMENTS_FILLER", "COMMENT_SINGLELINE", "COMMENT_MULTILINE",
             "ATTRIBUTES", "FUNCTIONS"}
      [] nonTerminal = "FUNCTION_BODY" ->
            {"FILLER", "STATEMENTS_FILLER", "COMMENT_SINGLELINE", "COMMENT_MULTILINE"}

\* A parseNonTerminal call of a parser right after its validation (line 201):
\* the detector found the symbols of state, one token each, in the range of a
\* TOP_LEVEL, of the CLASSES of a class, or of the FUNCTION_BODY of a function
\* whose FunctionDeclaration is attached. The class and the function start
\* with one token that is not in the range.
PSValidatedInit ==
    /\ psCommentBeforeFunction \in BOOLEAN
    /\ \E nonTerminal \in {"TOP_LEVEL", "CLASSES", "FUNCTION_BODY"} :
       \E state \in UNION { [1..n -> PSValidSymbols(nonTerminal)] : n \in 1..MaxAttachSymbols } :
          LET n == Len(state)
              lead == IF nonTerminal = "TOP_LEVEL" THEN 0 ELSE 1
              line == [i \in 1..(lead + n) |-> "a"]
              toks == [i \in 1..(lead + n + 1) |->
                         IF i <= lead + n THEN Token("OTHERS", <<"a">>, i - 1, i)
                         ELSE Token("SPACINGS", <<"\n">>, i - 1, i)]
              pmap == PSPositionsFrom(<<line>>, 0)
              root == Node("TopLevel", getMaxRange(<<line>>), FALSE)
              whole == resolveRange(toks, pmap, TokenRange(0, lead + n))
              first == resolveRange(toks, pmap, TokenRange(0, 1))
              tree == CASE nonTerminal = "TOP_LEVEL" -> <<root>>
                        [] nonTerminal = "CLASSES" ->
                             addChild(<<root, Node("Classes", whole, FALSE)>>, 1, 2)
                        [] nonTerminal = "FUNCTION_BODY" ->
                             addChild(Append(addFunctionGroups(
                                                <<root, Node("Functions", whole, FALSE)>>,
                                                1, whole, <<2>>),
                                             Node("FunctionDeclaration", first, FALSE)),
                                      2, 4)
          IN /\ psVocabulary = PSValidSymbols(nonTerminal)
             /\ sourceLines = <<line>>
             /\ sourceTokens = toks
             /\ positionMap = pmap
             /\ nodes = tree
             /\ frame = [Frame(nonTerminal, IF nonTerminal = "TOP_LEVEL" THEN 1 ELSE 2,
                               TokenRange(lead, lead + n), lead) EXCEPT
                            !.state = state,
                            !.symbolRange = [i \in 1..n |-> TokenRange(lead + i - 1, lead + i)],
                            !.ntParseRange =
                                [i \in 1..n |-> IF isTerminal(state[i]) THEN NullTokenRange
                                                ELSE TokenRange(lead + i - 1, lead + i)],
                            !.currentTokIndex = lead + n,
                            !.parsedEndTokIndex = lead + n,
                            !.concluded = TRUE]
    /\ pending = <<>>
    /\ psStatus = "parsing"
    /\ psError = "none"
    /\ ftMode = "none"
    /\ ftExclude = FALSE
    /\ ftTokens = <<>>
    /\ ftThrew = FALSE
    /\ ftReplace = NoReplace

InitAttach == PSValidatedInit /\ EMIdle /\ BMIdle /\ TKIdle /\ TSIdle /\ PYIdle
NextAttach ==
    \/ PSResolve /\ UNCHANGED <<emVars, bmVars, tkVars, tsVars, pyVars>>
    \/ PSAttach /\ UNCHANGED <<emVars, bmVars, tkVars, tsVars, pyVars>>
SpecAttach == InitAttach /\ [][NextAttach]_vars

\* ------------------------------------------------------------------------
\* PythonTokenizer
\* ------------------------------------------------------------------------

\* The lexer fields after the constructor.
PYInitial ==
    [insideSingleLineComments |-> FALSE, insideStringStatus |-> "NONE",
     previousIsEscape |-> FALSE, contiguousQuotesCount |-> 0]

\* handleOtherSituation(ch): the token type of the single character, "null"
\* when it has none, and whether it is a plain character.
PYHandleOtherSituation(lx, ch) ==
    LET Situation(l, tokenType, isPlainCharacter) ==
            [lx |-> l, tokenType |-> tokenType, isPlainCharacter |-> isPlainCharacter]
    IN IF ch \in {"{", "}", "[", "]", "(", ")"} THEN Situation(lx, "BRACES", FALSE)
       ELSE IF ch \in {" ", "\t", "\n"} THEN Situation(lx, "SPACINGS", FALSE)
       ELSE IF ch = ":" THEN Situation(lx, "OTHERS", FALSE)
       ELSE IF ch = "," THEN Situation(lx, "COMMAS", FALSE)
       ELSE IF ch = "#"
       THEN Situation([lx EXCEPT !.insideSingleLineComments = TRUE], "null", FALSE)
       ELSE IF ch = "\""
       THEN Situation([lx EXCEPT !.insideStringStatus = "DOUBLE_QUOTES",
                                 !.contiguousQuotesCount = 1], "null", FALSE)
       ELSE IF ch = "'"
       THEN Situation([lx EXCEPT !.insideStringStatus = "SINGLE_QUOTES",
                                 !.contiguousQuotesCount = 1], "null", FALSE)
       ELSE Situation(lx, "null", TRUE)

\* handleSingleQuoteSituation and handleDoubleQuoteSituation, which differ in
\* the quote and in the status they upgrade to.
PYHandleQuoteSituation(lx, ch, quote, triple) ==
    IF ch = quote /\ ~lx.previousIsEscape
    THEN IF lx.contiguousQuotesCount = 2
         THEN [lx |-> [lx EXCEPT !.previousIsEscape = FALSE,
                                 !.insideStringStatus = triple,
                                 !.contiguousQuotesCount = 0],
               dir |-> NullDirective]
         ELSE IF lx.contiguousQuotesCount = 1
         THEN [lx |-> [lx EXCEPT !.previousIsEscape = FALSE,
                                 !.contiguousQuotesCount = 2],
               dir |-> NullDirective]
         ELSE [lx |-> [lx EXCEPT !.previousIsEscape = FALSE,
                                 !.insideStringStatus = "NONE"],
               dir |-> Directive("STRINGS", "undefined", -1)]
    ELSE IF ch = "\n"
    THEN [lx |-> [lx EXCEPT !.previousIsEscape = FALSE,
                            !.contiguousQuotesCount = 0,
                            !.insideStringStatus = "NONE"],
          dir |-> Directive("STRINGS", "SPACINGS", -1)]
    ELSE IF lx.contiguousQuotesCount = 2
    THEN LET situation == PYHandleOtherSituation(
                              [lx EXCEPT !.contiguousQuotesCount = 0,
                                         !.previousIsEscape = FALSE,
                                         !.insideStringStatus = "NONE"], ch)
         IN [lx |-> situation.lx,
             dir |-> Directive("STRINGS",
                               IF situation.tokenType = "null" THEN "CONTINUATION"
                               ELSE situation.tokenType, -1)]
    ELSE [lx |-> [lx EXCEPT !.contiguousQuotesCount = 0,
                            !.previousIsEscape = IF ch = "\\" THEN ~@ ELSE FALSE],
          dir |-> NullDirective]

\* handleTripleSingleQuoteSituation and handleTripleDoubleQuoteSituation.
PYHandleTripleQuoteSituation(lx, ch, quote) ==
    IF ch = quote /\ ~lx.previousIsEscape
    THEN IF lx.contiguousQuotesCount = 2
         THEN [lx |-> [lx EXCEPT !.previousIsEscape = FALSE,
                                 !.contiguousQuotesCount = 0,
                                 !.insideStringStatus = "NONE"],
               dir |-> Directive("MULTILINE_COMMENTS_OR_STRINGS", "undefined", -1)]
         ELSE [lx |-> [lx EXCEPT !.previousIsEscape = FALSE,
                                 !.contiguousQuotesCount = @ + 1],
               dir |-> NullDirective]
    ELSE [lx |-> [lx EXCEPT !.contiguousQuotesCount = 0,
                            !.previousIsEscape = IF ch = "\\" THEN ~@ ELSE FALSE],
          dir |-> NullDirective]

\* matchNext(ch); bufLen is the length of the buffer, ch included.
PYMatchNext(lx, ch, bufLen) ==
    IF lx.insideSingleLineComments
    THEN IF ch = "\n"
         THEN [lx |-> [lx EXCEPT !.insideSingleLineComments = FALSE],
               dir |-> Directive("SINGLELINE_COMMENTS", "SPACINGS", -1)]
         ELSE [lx |-> lx, dir |-> NullDirective]
    ELSE IF lx.insideStringStatus = "SINGLE_QUOTES"
    THEN PYHandleQuoteSituation(lx, ch, "'", "TRIPLE_SINGLE_QUOTES")
    ELSE IF lx.insideStringStatus = "DOUBLE_QUOTES"
    THEN PYHandleQuoteSituation(lx, ch, "\"", "TRIPLE_DOUBLE_QUOTES")
    ELSE IF lx.insideStringStatus = "TRIPLE_SINGLE_QUOTES"
    THEN PYHandleTripleQuoteSituation(lx, ch, "'")
    ELSE IF lx.insideStringStatus = "TRIPLE_DOUBLE_QUOTES"
    THEN PYHandleTripleQuoteSituation(lx, ch, "\"")
    ELSE LET situation == PYHandleOtherSituation(lx, ch) IN
         IF bufLen = 1
         THEN [lx |-> situation.lx,
               dir |-> IF situation.tokenType # "null"
                       THEN Directive(situation.tokenType, "undefined", -1)
                       ELSE NullDirective]
         ELSE IF situation.tokenType = "null"
         THEN [lx |-> situation.lx,
               dir |-> IF situation.isPlainCharacter THEN NullDirective
                       ELSE Directive("OTHERS", "CONTINUATION", -1)]
         ELSE [lx |-> situation.lx,
               dir |-> Directive("OTHERS", situation.tokenType, -1)]

PYMatchEndCharacter(lx) ==
    IF lx.insideSingleLineComments THEN "SINGLELINE_COMMENTS"
    ELSE IF lx.insideStringStatus \in {"SINGLE_QUOTES", "DOUBLE_QUOTES"} THEN "STRINGS"
    ELSE IF lx.insideStringStatus \in {"TRIPLE_DOUBLE_QUOTES", "TRIPLE_SINGLE_QUOTES"}
    THEN "MULTILINE_COMMENTS_OR_STRINGS"
    ELSE "OTHERS"

\* One next(ch) of a PythonTokenizer that has not ended.
PYNextChar(t, lx, ch) ==
    LET appended == ATAppend(t, ch)
        m == PYMatchNext(lx, ch, Len(appended.stringBuffer))
        a == ATApplyDirective(appended, m.dir)
    IN [t |-> a.t, lx |-> m.lx, threw |-> a.threw]

\* What a PythonTokenizer holds after next(ch) was called with the characters
\* s[lo..hi] in order, stopping at the first call that throws. The loop of
\* parse() is folded by halves: the first half is fed, then the second half
\* from the state the first half left.
RECURSIVE PYFreshFeed(_, _, _, _, _)
PYFreshFeed(t, lx, s, lo, hi) ==
    IF lo > hi THEN [t |-> t, lx |-> lx, threw |-> FALSE]
    ELSE IF lo = hi THEN PYNextChar(t, lx, s[lo])
    ELSE LET mid == (lo + hi) \div 2
             Second(first) == IF first.threw THEN first
                              ELSE PYFreshFeed(first.t, first.lx, s, mid + 1, hi)
         IN Second(PYFreshFeed(t, lx, s, lo, mid))

\* The tokens a new PythonTokenizer holds after parse() fed it the characters
\* of s one by one and then null.
PYFreshTokens(s) ==
    LET Fed(r) == [tokens |-> ATEnd(r.t, PYMatchEndCharacter(r.lx)).tokenString,
                   threw |-> r.threw]
    IN Fed(PYFreshFeed(ATInitial, PYInitial, s, 1, Len(s)))

\* ------------------------------------------------------------------------
\* PythonParser
\* ------------------------------------------------------------------------

\* String.prototype.trim().
Trim(s) ==
    LET kept == { i \in 1..Len(s) : s[i] \notin {" ", "\t", "\n", "\r"} } IN
    IF kept = {} THEN <<>>
    ELSE SubSeq(s, CHOOSE i \in kept : \A j \in kept : i <= j,
                   CHOOSE i \in kept : \A j \in kept : j <= i)

\* String.prototype.indexOf(ch) and lastIndexOf(ch), -1 when ch is absent.
IndexOf(s, ch) ==
    LET at == { i \in 1..Len(s) : s[i] = ch } IN
    IF at = {} THEN -1 ELSE (CHOOSE i \in at : \A j \in at : i <= j) - 1
LastIndexOf(s, ch) ==
    LET at == { i \in 1..Len(s) : s[i] = ch } IN
    IF at = {} THEN -1 ELSE (CHOOSE i \in at : \A j \in at : j <= i) - 1

\* String.prototype.replace(/\\\n/g, ""): every backslash followed by a
\* newline goes.
RECURSIVE ReplaceContinuations(_, _)
ReplaceContinuations(s, i) ==
    IF i > Len(s) THEN <<>>
    ELSE IF i < Len(s) /\ s[i] = "\\" /\ s[i + 1] = "\n"
    THEN ReplaceContinuations(s, i + 2)
    ELSE <<s[i]>> \o ReplaceContinuations(s, i + 1)

trimReplaceString(str) == ReplaceContinuations(Trim(str), 1)

\* A nodeCreationInformation record: name is attributeName, argumentName or
\* functionName; type is attributeType, argumentType or functionReturnType;
\* text is commentContents, referenceText, classDefinitionText or
\* functionDefinitionText; innerRange is classInnerRange or funcInnerRange.
\* classType is always null and refRelativePath is read by no parser code: both
\* are left out.
CreationInfo(name, type, text, innerRange) ==
    [name |-> name, type |-> type, text |-> text, innerRange |-> innerRange]
NoInfo == CreationInfo(NullString, NullString, NullString, NullRange)
CommentInfo(commentContents) ==
    CreationInfo(NullString, NullString, commentContents, NullRange)

\* What a detector of the PythonParser leaves: the parser, the directive with
\* the nodeCreationInformation of its symbols, and the exception.
PYDetection(d, dir, info, secondInfo) ==
    [d |-> d, dir |-> dir, info |-> info, secondInfo |-> secondInfo,
     threw |-> FALSE, error |-> "none"]
PYDetectionThrew(d, error) ==
    [d |-> d, dir |-> NullSAD, info |-> NoInfo, secondInfo |-> NoInfo,
     threw |-> TRUE, error |-> error]

\* The fields of a PythonParser as the constructor sets them before its
\* resetDetectionState call. The BracesMatcher is its stack; the tokenStream
\* holds the stringContents of its tokens.
PythonParserNew ==
    [pythonCodeIndents |-> <<>>, pythonIsTabs |-> FALSE, bracesMatcher |-> <<>>,
     parseType |-> "TOP_LEVEL", continuousIndentAfterNewline |-> TRUE,
     mostRecentLineTokIndex |-> 0, lastLineForEndCodeBlockIndex |-> 0,
     indentationCount |-> 0, parsingBlockInitiated |-> FALSE,
     prevTokenEndsWithBackslash |-> FALSE, detectionType |-> "SINGLE_LINE",
     detectionSymbol |-> "STATEMENTS_FILLER", encounteredComments |-> FALSE,
     singleLineImmediatelyAfterComments |-> FALSE,
     stringStream |-> <<>>, tokenStream |-> <<>>, prevMultiline |-> FALSE,
     stopAcceptingStringStream |-> FALSE, classOrFuncBodyParseStart |-> -1,
     globalDetectionStartIndex |-> -1,
     functDetectingBody |-> FALSE, functColonIndex |-> -1,
     functRightAfterDef |-> FALSE, functName |-> NullString,
     functRightAfterArrow |-> FALSE, functType |-> NullString,
     functBodyHasOthers |-> FALSE, functBodyHasPreviousContent |-> FALSE,
     functBodyImmediatelyHasMLComments |-> NullString,
     functDeclStrBuffer |-> <<>>, functDeclStartParseIdx |-> -1,
     functDeclParsing |-> FALSE]

\* PythonParser.resetDetectionState.
PythonParser_resetDetectionState(d, startTokIndex, parsingNonTerminal) ==
    LET common == [d EXCEPT !.globalDetectionStartIndex = startTokIndex,
                            !.parseType = parsingNonTerminal,
                            !.bracesMatcher = <<>>]
        spacings(continuous) ==
            [common EXCEPT !.continuousIndentAfterNewline = continuous,
                           !.mostRecentLineTokIndex = -1,
                           !.indentationCount = 0,
                           !.prevTokenEndsWithBackslash = FALSE]
        blocks(continuous) ==
            [spacings(continuous) EXCEPT !.parsingBlockInitiated = FALSE,
                                         !.lastLineForEndCodeBlockIndex = -1,
                                         !.encounteredComments = FALSE,
                                         !.singleLineImmediatelyAfterComments = FALSE,
                                         !.detectionType = "SINGLE_LINE",
                                         !.detectionSymbol = "STATEMENTS_FILLER"]
    IN CASE parsingNonTerminal = "TOP_LEVEL" -> blocks(TRUE)
         [] parsingNonTerminal = "CLASSES" -> blocks(FALSE)
         [] parsingNonTerminal = "FUNCTIONS" ->
              [common EXCEPT !.functDetectingBody = FALSE,
                             !.functColonIndex = -1,
                             !.functRightAfterDef = FALSE,
                             !.functName = NullString,
                             !.functRightAfterArrow = FALSE,
                             !.functType = NullString]
         [] parsingNonTerminal = "FUNCTION_BODY" ->
              [spacings(FALSE) EXCEPT !.functBodyHasOthers = FALSE,
                                      !.functBodyHasPreviousContent = FALSE,
                                      !.functBodyImmediatelyHasMLComments = NullString]
         [] parsingNonTerminal = "FUNCTION_DECLARATION" ->
              [spacings(FALSE) EXCEPT !.functDeclStrBuffer = <<>>,
                                      !.functDeclStartParseIdx = -1,
                                      !.functDeclParsing = FALSE]
         [] OTHER -> common

\* preparse with a factor accepted only when every indentation count is a
\* multiple of it.
PythonParser_preparseNoTolerance(d, codeLines) ==
    LET indent(line) ==
            LET stops == { i \in 1..Len(line) : line[i] \notin {" ", "\t"} } IN
            IF stops = {} THEN line
            ELSE SubSeq(line, 1, (CHOOSE i \in stops : \A j \in stops : i <= j) - 1)
        indented == { k \in 1..Len(codeLines) :
                        Len(Trim(codeLines[k])) # 0 /\ Len(indent(codeLines[k])) > 0 }
        hasSpaces(k) == \E i \in 1..Len(indent(codeLines[k])) : codeLines[k][i] = " "
        hasTabs(k) == \E i \in 1..Len(indent(codeLines[k])) : codeLines[k][i] = "\t"
        spaceIndentCounts == { k \in indented : hasSpaces(k) }
        tabIndentCount == Cardinality({ k \in indented : ~hasSpaces(k) /\ hasTabs(k) })
        fits(factor) ==
            /\ spaceIndentCounts # {}
            /\ \A k \in spaceIndentCounts : Len(indent(codeLines[k])) % factor = 0
        possibleFactors == <<12, 6, 4, 3, 2>>
        found == { i \in 1..Len(possibleFactors) : fits(possibleFactors[i]) }
        indentStep == possibleFactors[CHOOSE i \in found : \A j \in found : i <= j]
        Threw == [d |-> d, threw |-> TRUE, error |-> "CodeParsingError"]
        Ok(e) == [d |-> e, threw |-> FALSE, error |-> "none"]
    IN IF \E k \in indented : hasSpaces(k) /\ hasTabs(k) THEN Threw
       ELSE IF spaceIndentCounts # {} /\ tabIndentCount > 0 THEN Threw
       ELSE IF tabIndentCount > 0
       THEN Ok([d EXCEPT !.pythonIsTabs = TRUE, !.pythonCodeIndents = <<"\t">>])
       ELSE IF found = {} THEN Threw
       ELSE Ok([d EXCEPT !.pythonCodeIndents = [i \in 1..indentStep |-> " "],
                         !.pythonIsTabs = FALSE])


\* PythonParser.preparse: the parser with the indentation it detected, or the
\* CodeParsingError. The quotient invalidCount / spaceIndentCounts.length is
\* NaN when no line is indented, and NaN <= 0.2 is false.
PythonParser_preparse(d, codeLines) ==
    LET indent(line) ==
            LET stops == { i \in 1..Len(line) : line[i] \notin {" ", "\t"} } IN
            IF stops = {} THEN line
            ELSE SubSeq(line, 1, (CHOOSE i \in stops : \A j \in stops : i <= j) - 1)
        indented == { k \in 1..Len(codeLines) :
                        Len(Trim(codeLines[k])) # 0 /\ Len(indent(codeLines[k])) > 0 }
        hasSpaces(k) == \E i \in 1..Len(indent(codeLines[k])) : codeLines[k][i] = " "
        hasTabs(k) == \E i \in 1..Len(indent(codeLines[k])) : codeLines[k][i] = "\t"
        spaceIndentCounts == { k \in indented : hasSpaces(k) }
        tabIndentCount == Cardinality({ k \in indented : ~hasSpaces(k) /\ hasTabs(k) })
        fits(factor) ==
            /\ spaceIndentCounts # {}
            /\ 5 * Cardinality({ k \in spaceIndentCounts :
                                   Len(indent(codeLines[k])) % factor # 0 })
                  <= Cardinality(spaceIndentCounts)
        possibleFactors == <<12, 6, 4, 3, 2>>
        found == { i \in 1..Len(possibleFactors) : fits(possibleFactors[i]) }
        indentStep == possibleFactors[CHOOSE i \in found : \A j \in found : i <= j]
        Threw == [d |-> d, threw |-> TRUE, error |-> "CodeParsingError"]
        Ok(e) == [d |-> e, threw |-> FALSE, error |-> "none"]
    IN IF \E k \in indented : hasSpaces(k) /\ hasTabs(k) THEN Threw
       ELSE IF spaceIndentCounts # {} /\ tabIndentCount > 0 THEN Threw
       ELSE IF tabIndentCount > 0
       THEN Ok([d EXCEPT !.pythonIsTabs = TRUE, !.pythonCodeIndents = <<"\t">>])
       ELSE IF found = {} THEN Threw
       ELSE Ok([d EXCEPT !.pythonCodeIndents = [i \in 1..indentStep |-> " "],
                         !.pythonIsTabs = FALSE])

\* updateCodeBlocksBracesAndSpacingsState.
PythonParser_updateCodeBlocksBracesAndSpacingsState(d, token, currentTokIndex) ==
    LET s == token.stringContents
        maps == BMCtor(BMStandard)
        Ok(e) == [d |-> e, threw |-> FALSE, error |-> "none"]
    IN IF token.tokenType = "SPACINGS"
       THEN LET e == IF Len(d.bracesMatcher) # 0 THEN d
                     ELSE IF s = <<"\n">> /\ ~d.prevTokenEndsWithBackslash
                     THEN [d EXCEPT !.mostRecentLineTokIndex = currentTokIndex,
                                    !.indentationCount = 0,
                                    !.continuousIndentAfterNewline = TRUE]
                     ELSE IF d.continuousIndentAfterNewline
                     THEN [d EXCEPT !.indentationCount = @ + 1]
                     ELSE d
            IN Ok([e EXCEPT !.prevTokenEndsWithBackslash = FALSE])
       ELSE IF token.tokenType = "BRACES"
       THEN LET b == BMNextResult(maps.o2c, maps.c2o, d.bracesMatcher, s[1]) IN
            IF b.threw THEN [d |-> d, threw |-> TRUE, error |-> "CodeParsingError"]
            ELSE Ok([d EXCEPT !.bracesMatcher = b.stack,
                              !.continuousIndentAfterNewline = FALSE,
                              !.prevTokenEndsWithBackslash = FALSE])
       ELSE Ok([d EXCEPT !.continuousIndentAfterNewline = FALSE,
                         !.prevTokenEndsWithBackslash =
                             Len(s) > 0 /\ s[Len(s)] = "\\"])

\* updateCodeBlocksContentsParseState.
PythonParser_updateCodeBlocksContentsParseState(d, token, needsReset, currentTokIndex, indentationExpected) ==
    LET s == token.stringContents
        r == IF needsReset
             THEN [d EXCEPT !.tokenStream = <<>>, !.stringStream = <<>>,
                            !.prevMultiline = FALSE,
                            !.stopAcceptingStringStream = FALSE,
                            !.classOrFuncBodyParseStart = -1]
             ELSE d
        Word(w) == s = w \/ s = w \o <<"\\">>
        atLevel == indentationExpected = r.indentationCount
        depth0 == Len(r.bracesMatcher) = 0
        demoted == IF r.detectionSymbol = "COMMENT_MULTILINE" /\ token.tokenType # "SPACINGS"
                   THEN [r EXCEPT !.detectionSymbol = "STATEMENTS_FILLER"]
                   ELSE r
        \* The colon that ends the definition text of a function or class.
        colon(e, symbols) ==
            IF /\ e.detectionSymbol \in symbols
               /\ ~e.stopAcceptingStringStream
               /\ depth0
               /\ IndexOf(s, ":") # -1
            THEN [e EXCEPT !.stopAcceptingStringStream = TRUE,
                           !.classOrFuncBodyParseStart = currentTokIndex + 1]
            ELSE e
        topLevel ==
            IF Len(r.stringStream) = 0
            THEN IF ~atLevel THEN r
                 ELSE IF Word(<<"f", "r", "o", "m">>) \/ Word(<<"i", "m", "p", "o", "r", "t">>)
                 THEN [r EXCEPT !.detectionSymbol = "REFERENCES"]
                 ELSE IF Word(<<"d", "e", "f">>)
                 THEN [r EXCEPT !.detectionType = "MULTI_LINE", !.detectionSymbol = "FUNCTIONS"]
                 ELSE IF Word(<<"c", "l", "a", "s", "s">>)
                 THEN [r EXCEPT !.detectionType = "MULTI_LINE", !.detectionSymbol = "CLASSES"]
                 ELSE IF token.tokenType = "MULTILINE_COMMENTS_OR_STRINGS"
                 THEN [r EXCEPT !.detectionSymbol = "COMMENT_MULTILINE"]
                 ELSE r
            ELSE colon(demoted, {"FUNCTIONS", "CLASSES"})
        classes ==
            LET first == IF Len(r.stringStream) = 0
                         THEN IF ~atLevel THEN r
                              ELSE IF Word(<<"d", "e", "f">>)
                              THEN [r EXCEPT !.detectionType = "MULTI_LINE",
                                             !.detectionSymbol = "FUNCTIONS"]
                              ELSE IF token.tokenType = "MULTILINE_COMMENTS_OR_STRINGS"
                              THEN [r EXCEPT !.detectionSymbol = "COMMENT_MULTILINE",
                                             !.prevMultiline = TRUE]
                              ELSE r
                         ELSE colon(demoted, {"FUNCTIONS"})
            IN IF /\ ~first.prevMultiline
                  /\ first.detectionSymbol = "STATEMENTS_FILLER"
                  /\ depth0
                  /\ indentationExpected = first.indentationCount
                  /\ \/ Len(first.stringStream) > 0 /\ LastIndexOf(s, ":") # -1
                     \/ LastIndexOf(s, ":") > 0
               THEN [first EXCEPT !.detectionSymbol = "ATTRIBUTES"]
               ELSE first
        streams(e) ==
            [e EXCEPT !.tokenStream = IF token.tokenType # "SPACINGS" THEN Append(@, s) ELSE @,
                      !.stringStream = IF ~e.stopAcceptingStringStream THEN @ \o s ELSE @]
    IN IF r.parseType = "TOP_LEVEL"
       THEN [d |-> streams(topLevel), threw |-> FALSE, error |-> "none"]
       ELSE IF r.parseType = "CLASSES"
       THEN [d |-> streams(classes), threw |-> FALSE, error |-> "none"]
       ELSE [d |-> r, threw |-> TRUE, error |-> "Error"]

\* concludeCodeBlock: the parser, the SymbolInfo it returns, and the exception.
\* getTokenChRange(tokIdx) dereferences sourceTokens[tokIdx].
PythonParser_concludeCodeBlock(d, reachedGlobalEndIndex) ==
    LET e == IF /\ reachedGlobalEndIndex # -1
                /\ ~d.prevTokenEndsWithBackslash
                /\ ~d.continuousIndentAfterNewline
             THEN [d EXCEPT !.lastLineForEndCodeBlockIndex = reachedGlobalEndIndex]
             ELSE d
        SymbolInfo(symbolType, parseRange, info) ==
            [d |-> e, symbolType |-> symbolType, parseRange |-> parseRange,
             info |-> info, threw |-> FALSE, error |-> "none"]
        Threw(error) ==
            [d |-> e, symbolType |-> "null", parseRange |-> NullTokenRange,
             info |-> NoInfo, threw |-> TRUE, error |-> error]
        text == trimReplaceString(e.stringStream)
        bodyStart == e.classOrFuncBodyParseStart
        bodyEnd == e.lastLineForEndCodeBlockIndex
        dereferences == /\ bodyStart \in 0..(Len(sourceTokens) - 1)
                        /\ bodyEnd \in 0..(Len(sourceTokens) - 1)
        innerRange == getRange(positionMap, sourceTokens[bodyStart + 1].start,
                               sourceTokens[bodyEnd + 1].start)
        statements == SymbolInfo("STATEMENTS_FILLER", NullTokenRange, NoInfo)
        comment == SymbolInfo("COMMENT_MULTILINE", NullTokenRange,
                              CommentInfo(SubstringJS(text, 3, Len(text) - 3)))
        functions ==
            IF ~e.stopAcceptingStringStream THEN statements
            ELSE IF ~dereferences THEN Threw("TypeError")
            ELSE SymbolInfo("FUNCTIONS", NullTokenRange,
                            CreationInfo(NullString, NullString, text, innerRange))
        classes ==
            IF bodyStart = -1 \/ bodyStart >= bodyEnd THEN statements
            ELSE IF ~dereferences THEN Threw("TypeError")
            ELSE SymbolInfo("CLASSES", TokenRange(bodyStart, bodyEnd),
                            CreationInfo(NullString, NullString, text, innerRange))
        attributes ==
            LET idx == IndexOf(text, ":") IN
            SymbolInfo("ATTRIBUTES", NullTokenRange,
                IF idx = -1 THEN CreationInfo(text, NullString, NullString, NullRange)
                ELSE CreationInfo(Trim(SubstringJS(text, 0, idx)),
                                  IF idx = Len(text) - 1 THEN <<>>
                                  ELSE Trim(SubstringJS(text, idx + 1, Len(text))),
                                  NullString, NullRange))
    IN IF e.parseType = "TOP_LEVEL"
       THEN CASE e.detectionSymbol = "STATEMENTS_FILLER" -> statements
              [] e.detectionSymbol = "REFERENCES" ->
                    SymbolInfo("REFERENCES", NullTokenRange,
                               CreationInfo(NullString, NullString, text, NullRange))
              [] e.detectionSymbol = "COMMENT_MULTILINE" -> comment
              [] e.detectionSymbol = "FUNCTIONS" -> functions
              [] e.detectionSymbol = "CLASSES" -> classes
              [] OTHER -> Threw("Error")
       ELSE IF e.parseType = "CLASSES"
       THEN CASE e.detectionSymbol = "STATEMENTS_FILLER" -> statements
              [] e.detectionSymbol = "ATTRIBUTES" -> attributes
              [] e.detectionSymbol = "COMMENT_MULTILINE" -> comment
              [] e.detectionSymbol = "FUNCTIONS" -> functions
              [] OTHER -> Threw("Error")
       ELSE Threw("Error")

\* detectCodeBlocks, the detector of TOP_LEVEL and of CLASSES.
PythonParser_detectCodeBlocks(d, token, depth, currentTokIndex) ==
    LET s == token.stringContents
        indentationExpected ==
            depth * (IF d.pythonIsTabs THEN 1 ELSE Len(d.pythonCodeIndents))
        singleLineComment == CommentInfo(SubstringJS(s, 1, Len(s)))
        Step(e, dir, info, secondInfo, hasConclusion) ==
            [d |-> e, dir |-> dir, info |-> info, secondInfo |-> secondInfo,
             hasConclusion |-> hasConclusion, threw |-> FALSE, error |-> "none"]
        StepThrew(e, error) ==
            [d |-> e, dir |-> NullSAD, info |-> NoInfo, secondInfo |-> NoInfo,
             hasConclusion |-> FALSE, threw |-> TRUE, error |-> error]
        \* The concluding call, token === null.
        atEnd ==
            IF d.parsingBlockInitiated
            THEN LET Concluded(symbol) ==
                         LET length == currentTokIndex - symbol.d.lastLineForEndCodeBlockIndex
                         IN IF symbol.threw THEN PYDetectionThrew(symbol.d, symbol.error)
                            ELSE IF symbol.symbolType \in {"FILLER", "STATEMENTS_FILLER"} \/ length = 0
                            THEN PYDetection(symbol.d,
                                    SymbolAdditionDirective(symbol.symbolType, symbol.parseRange,
                                                            "undefined", -1, -1),
                                    symbol.info, NoInfo)
                            ELSE PYDetection(symbol.d,
                                    SymbolAdditionDirective(symbol.symbolType, symbol.parseRange,
                                                            "FILLER", length, -1),
                                    symbol.info, NoInfo)
                 IN Concluded(PythonParser_concludeCodeBlock(d, currentTokIndex))
            ELSE IF d.mostRecentLineTokIndex # -1 \/ d.indentationCount > 0
            THEN PYDetection(d, SymbolAdditionDirective("FILLER", NullTokenRange,
                                                        "undefined", -1, -1),
                             NoInfo, NoInfo)
            ELSE PYDetection(d, NullSAD, NoInfo, NoInfo)
        \* Awaiting the stopping signal of a single line.
        singleLine ==
            IF s = <<"\n">> /\ Len(d.bracesMatcher) = 0 /\ ~d.prevTokenEndsWithBackslash
            THEN LET stopped == [d EXCEPT !.parsingBlockInitiated = FALSE]
                     Concluded(symbolInfo) ==
                         IF symbolInfo.threw THEN StepThrew(symbolInfo.d, symbolInfo.error)
                         ELSE Step([symbolInfo.d EXCEPT !.singleLineImmediatelyAfterComments = FALSE],
                                   SymbolAdditionDirective(symbolInfo.symbolType,
                                       symbolInfo.parseRange, "undefined", 1, -1),
                                   symbolInfo.info, NoInfo, TRUE)
                 IN IF ~d.singleLineImmediatelyAfterComments
                    THEN Concluded(PythonParser_concludeCodeBlock(stopped, -1))
                    ELSE Step([stopped EXCEPT !.singleLineImmediatelyAfterComments = FALSE],
                              NullSAD, NoInfo, NoInfo, TRUE)
            ELSE Step([d EXCEPT !.singleLineImmediatelyAfterComments = FALSE],
                      NullSAD, NoInfo, NoInfo, FALSE)
        \* Awaiting the stopping signal of a multi-line block.
        multiLine ==
            IF Len(d.bracesMatcher) # 0 THEN Step(d, NullSAD, NoInfo, NoInfo, FALSE)
            ELSE IF /\ d.continuousIndentAfterNewline
                    /\ token.tokenType # "SPACINGS"
                    /\ d.indentationCount <= indentationExpected
                    /\ token.tokenType # "SINGLELINE_COMMENTS"
            THEN LET Restarted(symbolInfo, updated) ==
                         IF symbolInfo.threw THEN StepThrew(symbolInfo.d, symbolInfo.error)
                         ELSE IF updated.threw THEN StepThrew(updated.d, updated.error)
                         ELSE Step(updated.d,
                                   SymbolAdditionDirective(symbolInfo.symbolType,
                                       symbolInfo.parseRange, "FILLER",
                                       currentTokIndex - d.lastLineForEndCodeBlockIndex, 1),
                                   symbolInfo.info, NoInfo, TRUE)
                     Concluded(symbolInfo) ==
                         Restarted(symbolInfo,
                             PythonParser_updateCodeBlocksContentsParseState(
                                 [symbolInfo.d EXCEPT
                                     !.parsingBlockInitiated = TRUE,
                                     !.detectionType = "SINGLE_LINE",
                                     !.detectionSymbol = "STATEMENTS_FILLER",
                                     !.encounteredComments = FALSE,
                                     !.singleLineImmediatelyAfterComments = FALSE],
                                 token, TRUE, currentTokIndex, indentationExpected))
                 IN Concluded(PythonParser_concludeCodeBlock(d, -1))
            ELSE IF /\ s = <<"\n">>
                    /\ ~d.prevTokenEndsWithBackslash
                    /\ ~d.continuousIndentAfterNewline
            THEN Step([d EXCEPT !.lastLineForEndCodeBlockIndex = currentTokIndex],
                      NullSAD, NoInfo, NoInfo, FALSE)
            ELSE Step(d, NullSAD, NoInfo, NoInfo, FALSE)
        \* The block is initiated.
        initiated ==
            LET Contents(awaited, updated) ==
                    IF updated.threw THEN StepThrew(updated.d, updated.error)
                    ELSE [awaited EXCEPT !.d = updated.d]
                Awaited(awaited) ==
                    IF awaited.threw THEN awaited
                    ELSE IF /\ token.tokenType = "SINGLELINE_COMMENTS"
                            /\ awaited.d.detectionSymbol = "STATEMENTS_FILLER"
                    THEN Step([awaited.d EXCEPT !.encounteredComments = TRUE,
                                                !.singleLineImmediatelyAfterComments = TRUE],
                              SymbolAdditionDirective("STATEMENTS_FILLER", NullTokenRange,
                                                      "COMMENT_SINGLELINE", -1, -1),
                              NoInfo, singleLineComment, awaited.hasConclusion)
                    ELSE IF ~(awaited.d.encounteredComments \/ awaited.hasConclusion)
                    THEN Contents(awaited,
                             PythonParser_updateCodeBlocksContentsParseState(
                                 awaited.d, token, FALSE, currentTokIndex, indentationExpected))
                    ELSE awaited
            IN Awaited(IF d.detectionType = "SINGLE_LINE" THEN singleLine ELSE multiLine)
        \* Awaiting the initiation signal.
        notInitiated ==
            LET hasFiller == d.mostRecentLineTokIndex # -1 \/ d.indentationCount > 0
                Started(updated) ==
                    IF updated.threw THEN StepThrew(updated.d, updated.error)
                    ELSE Step(updated.d,
                              IF hasFiller
                              THEN SymbolAdditionDirective("FILLER", NullTokenRange,
                                                           "undefined", 1, -1)
                              ELSE NullSAD,
                              NoInfo, NoInfo, FALSE)
            IN
            IF ~(d.continuousIndentAfterNewline /\ token.tokenType # "SPACINGS")
            THEN Step(d, NullSAD, NoInfo, NoInfo, FALSE)
            ELSE IF token.tokenType = "SINGLELINE_COMMENTS"
            THEN IF hasFiller
                 THEN Step(d, SymbolAdditionDirective("FILLER", NullTokenRange,
                                                      "COMMENT_SINGLELINE", -1, -1),
                           NoInfo, singleLineComment, FALSE)
                 ELSE Step(d, SymbolAdditionDirective("COMMENT_SINGLELINE", NullTokenRange,
                                                      "undefined", -1, -1),
                           singleLineComment, NoInfo, FALSE)
            ELSE Started(PythonParser_updateCodeBlocksContentsParseState(
                             [d EXCEPT !.parsingBlockInitiated = TRUE,
                                       !.detectionType = "SINGLE_LINE",
                                       !.detectionSymbol = "STATEMENTS_FILLER",
                                       !.encounteredComments = FALSE,
                                       !.singleLineImmediatelyAfterComments = FALSE],
                             token, TRUE, currentTokIndex, indentationExpected))
        \* The braces and spacings are updated after the detection.
        Spaced(detected, spaced) ==
            IF spaced.threw THEN PYDetectionThrew(spaced.d, spaced.error)
            ELSE PYDetection(spaced.d, detected.dir, detected.info, detected.secondInfo)
        Detected(detected) ==
            IF detected.threw THEN PYDetectionThrew(detected.d, detected.error)
            ELSE Spaced(detected,
                        PythonParser_updateCodeBlocksBracesAndSpacingsState(
                            detected.d, token, currentTokIndex))
    IN IF token = NullSourceToken THEN atEnd
       ELSE Detected(IF d.parsingBlockInitiated THEN initiated ELSE notInitiated)

\* PythonParser.detectFunctionsSymbol.
PythonParser_detectFunctionsSymbol(d, token, currentTokIndex) ==
    LET s == token.stringContents
        maps == BMCtor(BMStandard)
        depth0 == Len(d.bracesMatcher) = 0
        afterDef ==
            IF d.functRightAfterDef /\ token.tokenType = "OTHERS"
            THEN [d EXCEPT !.functRightAfterDef = FALSE, !.functName = s]
            ELSE IF d.functRightAfterDef /\ token.tokenType # "SPACINGS"
            THEN [d EXCEPT !.functRightAfterDef = FALSE]
            ELSE IF currentTokIndex = d.globalDetectionStartIndex
            THEN [d EXCEPT !.functRightAfterDef = TRUE]
            ELSE d
        afterArrow ==
            IF afterDef.functRightAfterArrow /\ token.tokenType = "OTHERS"
            THEN [afterDef EXCEPT !.functRightAfterArrow = FALSE, !.functType = s]
            ELSE IF afterDef.functRightAfterArrow /\ token.tokenType # "SPACINGS"
            THEN [afterDef EXCEPT !.functRightAfterArrow = FALSE]
            ELSE IF s = <<"-", ">">> /\ depth0
            THEN [afterDef EXCEPT !.functRightAfterArrow = TRUE]
            ELSE afterDef
        b == BMNextResult(maps.o2c, maps.c2o, d.bracesMatcher, s[1])
    IN IF d.functDetectingBody
       THEN IF token = NullSourceToken
            THEN PYDetection(d, SymbolAdditionDirective("FUNCTION_BODY", NullTokenRange,
                                                        "undefined", -1, -1),
                             NoInfo, NoInfo)
            ELSE PYDetection(d, NullSAD, NoInfo, NoInfo)
       ELSE IF token = NullSourceToken THEN PYDetectionThrew(d, "CodeParsingError")
       ELSE IF depth0 /\ IndexOf(s, ":") # -1
       THEN LET colon == [d EXCEPT !.functColonIndex = currentTokIndex,
                                   !.functDetectingBody = TRUE,
                                   !.functType = IF @ # NullString /\ d.functName # NullString
                                                 THEN Trim(@) ELSE @]
            IN IF d.functName = NullString THEN PYDetectionThrew(colon, "CodeParsingError")
               ELSE PYDetection(colon,
                       SymbolAdditionDirective("FUNCTION_DECLARATION",
                           TokenRange(d.globalDetectionStartIndex, currentTokIndex),
                           "undefined", -1, -1),
                       CreationInfo(Trim(d.functName), colon.functType, NullString, NullRange),
                       NoInfo)
       ELSE IF token.tokenType = "BRACES"
       THEN IF b.threw THEN PYDetectionThrew(afterArrow, "CodeParsingError")
            ELSE PYDetection([afterArrow EXCEPT !.bracesMatcher = b.stack],
                             NullSAD, NoInfo, NoInfo)
       ELSE PYDetection(afterArrow, NullSAD, NoInfo, NoInfo)

\* detectFunctionBodySymbol taking a leading multi-line string for a statement.
PythonParser_detectFunctionBodySymbolNoDocComment(d, token, currentTokIndex) ==
    LET s == token.stringContents
        filler == IF d.functBodyHasOthers THEN "STATEMENTS_FILLER" ELSE "FILLER"
        docComment == CommentInfo(d.functBodyImmediatelyHasMLComments)
        lineComment == CommentInfo(SubstringJS(s, 1, Len(s)))
        One(symbolType, info, secondSymbolLen) ==
            [dir |-> SymbolAdditionDirective(symbolType, NullTokenRange, "undefined",
                                             secondSymbolLen, -1),
             info |-> info, secondInfo |-> NoInfo]
        Two(secondSymbolType, secondInfo, secondSymbolLen, endBufferLen) ==
            [dir |-> SymbolAdditionDirective(filler, NullTokenRange, secondSymbolType,
                                             secondSymbolLen, endBufferLen),
             info |-> NoInfo, secondInfo |-> secondInfo]
        None == [dir |-> NullSAD, info |-> NoInfo, secondInfo |-> NoInfo]
        atEnd ==
            IF d.functBodyImmediatelyHasMLComments # NullString
            THEN IF d.functBodyHasPreviousContent
                 THEN Two("COMMENT_MULTILINE", docComment, 1, -1)
                 ELSE One("COMMENT_MULTILINE", docComment, -1)
            ELSE IF d.functBodyHasPreviousContent
            THEN One(filler, NoInfo, -1)
            ELSE None
        cleared == [d EXCEPT !.functBodyHasOthers = FALSE,
                             !.functBodyHasPreviousContent = FALSE]
        step ==
            IF token.tokenType = "SINGLELINE_COMMENTS"
            THEN [d |-> cleared,
                  ret |-> IF d.functBodyHasPreviousContent
                          THEN Two("COMMENT_SINGLELINE", lineComment, -1, -1)
                          ELSE One("COMMENT_SINGLELINE", lineComment, -1)]
            ELSE IF d.functBodyImmediatelyHasMLComments # NullString /\ s = <<"\n">>
            THEN [d |-> [cleared EXCEPT !.functBodyImmediatelyHasMLComments = NullString],
                  ret |-> IF d.functBodyHasPreviousContent
                          THEN Two("COMMENT_MULTILINE", docComment, 1, 1)
                          ELSE One("COMMENT_MULTILINE", docComment, 1)]
            ELSE [d |-> [d EXCEPT !.functBodyHasPreviousContent = TRUE,
                                  !.functBodyImmediatelyHasMLComments = NullString,
                                  !.functBodyHasOthers =
                                      IF token.tokenType # "SPACINGS" THEN TRUE ELSE @],
                  ret |-> None]
        spaced == PythonParser_updateCodeBlocksBracesAndSpacingsState(
                      step.d, token, currentTokIndex)
    IN IF token = NullSourceToken
       THEN PYDetection(d, atEnd.dir, atEnd.info, atEnd.secondInfo)
       ELSE IF spaced.threw THEN PYDetectionThrew(spaced.d, spaced.error)
       ELSE PYDetection(spaced.d, step.ret.dir, step.ret.info, step.ret.secondInfo)

\* PythonParser.detectFunctionBodySymbol.
PythonParser_detectFunctionBodySymbol(d, token, currentTokIndex) ==
    LET s == token.stringContents
        filler == IF d.functBodyHasOthers THEN "STATEMENTS_FILLER" ELSE "FILLER"
        docComment == CommentInfo(d.functBodyImmediatelyHasMLComments)
        lineComment == CommentInfo(SubstringJS(s, 1, Len(s)))
        One(symbolType, info, secondSymbolLen) ==
            [dir |-> SymbolAdditionDirective(symbolType, NullTokenRange, "undefined",
                                             secondSymbolLen, -1),
             info |-> info, secondInfo |-> NoInfo]
        Two(secondSymbolType, secondInfo, secondSymbolLen, endBufferLen) ==
            [dir |-> SymbolAdditionDirective(filler, NullTokenRange, secondSymbolType,
                                             secondSymbolLen, endBufferLen),
             info |-> NoInfo, secondInfo |-> secondInfo]
        None == [dir |-> NullSAD, info |-> NoInfo, secondInfo |-> NoInfo]
        atEnd ==
            IF d.functBodyImmediatelyHasMLComments # NullString
            THEN IF d.functBodyHasPreviousContent
                 THEN Two("COMMENT_MULTILINE", docComment, 1, -1)
                 ELSE One("COMMENT_MULTILINE", docComment, -1)
            ELSE IF d.functBodyHasPreviousContent
            THEN One(filler, NoInfo, -1)
            ELSE None
        cleared == [d EXCEPT !.functBodyHasOthers = FALSE,
                             !.functBodyHasPreviousContent = FALSE]
        step ==
            IF token.tokenType = "SINGLELINE_COMMENTS"
            THEN [d |-> cleared,
                  ret |-> IF d.functBodyHasPreviousContent
                          THEN Two("COMMENT_SINGLELINE", lineComment, -1, -1)
                          ELSE One("COMMENT_SINGLELINE", lineComment, -1)]
            ELSE IF /\ token.tokenType = "MULTILINE_COMMENTS_OR_STRINGS"
                    /\ d.continuousIndentAfterNewline
            THEN [d |-> [d EXCEPT !.functBodyImmediatelyHasMLComments =
                                      SubstringJS(s, 3, Len(s) - 3)],
                  ret |-> None]
            ELSE IF d.functBodyImmediatelyHasMLComments # NullString /\ s = <<"\n">>
            THEN [d |-> [cleared EXCEPT !.functBodyImmediatelyHasMLComments = NullString],
                  ret |-> IF d.functBodyHasPreviousContent
                          THEN Two("COMMENT_MULTILINE", docComment, 1, 1)
                          ELSE One("COMMENT_MULTILINE", docComment, 1)]
            ELSE [d |-> [d EXCEPT !.functBodyHasPreviousContent = TRUE,
                                  !.functBodyImmediatelyHasMLComments = NullString,
                                  !.functBodyHasOthers =
                                      IF token.tokenType # "SPACINGS" THEN TRUE ELSE @],
                  ret |-> None]
        spaced == PythonParser_updateCodeBlocksBracesAndSpacingsState(
                      step.d, token, currentTokIndex)
    IN IF token = NullSourceToken
       THEN PYDetection(d, atEnd.dir, atEnd.info, atEnd.secondInfo)
       ELSE IF spaced.threw THEN PYDetectionThrew(spaced.d, spaced.error)
       ELSE PYDetection(spaced.d, step.ret.dir, step.ret.info, step.ret.secondInfo)

\* PythonParser.detectFunctionDeclarationSymbol.
PythonParser_detectFunctionDeclarationSymbol(d, token, currentTokIndex) ==
    LET s == token.stringContents
        depth == Len(d.bracesMatcher)
        \* The argument a buffer concludes into, when it holds one.
        Concluded(buffer) ==
            LET trimmed == trimReplaceString(buffer)
                equals == IndexOf(trimmed, "=")
                argument == IF equals # -1 THEN Trim(SubstringJS(trimmed, 0, equals))
                            ELSE trimmed
                idx == IndexOf(argument, ":")
            IN [empty |-> Len(trimmed) = 0,
                info |-> IF idx > 0 /\ idx < Len(argument) - 1
                         THEN CreationInfo(Trim(SubstringJS(argument, 0, idx)),
                                           Trim(SubstringJS(argument, idx + 1, Len(argument))),
                                           NullString, NullRange)
                         ELSE CreationInfo(argument, NullString, NullString, NullRange)]
        None == [dir |-> NullSAD, secondInfo |-> NoInfo]
        Argument(e, info) ==
            [dir |-> SymbolAdditionDirective("FILLER", NullTokenRange, "ARGUMENT",
                         currentTokIndex - e.functDeclStartParseIdx - 1, 1),
             secondInfo |-> info]
        Argued(e, ret, c) ==
            IF c.empty THEN [d |-> [e EXCEPT !.functDeclStrBuffer = <<>>], ret |-> ret]
            ELSE [d |-> [e EXCEPT !.functDeclStartParseIdx = currentTokIndex,
                                  !.functDeclStrBuffer = <<>>],
                  ret |-> Argument(e, c.info)]
        Conclude(e, ret) == Argued(e, ret, Concluded(e.functDeclStrBuffer))
        \* The part before the braces are updated.
        first ==
            IF ~d.functDeclParsing THEN [d |-> d, ret |-> None]
            ELSE IF token.tokenType # "COMMAS"
            THEN [d |-> IF depth > 1 \/ s # <<")">>
                        THEN [d EXCEPT !.functDeclStrBuffer = @ \o s] ELSE d,
                  ret |-> None]
            ELSE IF depth > 1
            THEN [d |-> [d EXCEPT !.functDeclStrBuffer = @ \o s], ret |-> None]
            ELSE IF depth = 1 THEN Conclude(d, None)
            ELSE [d |-> d, ret |-> None]
        \* The part after: the declaration starts or ends with the braces.
        Second(second) == PYDetection(second.d, second.ret.dir, NoInfo, second.ret.secondInfo)
        Spaced(ret, e) ==
            Second(IF e.functDeclParsing /\ Len(e.bracesMatcher) = 0
                   THEN Conclude([e EXCEPT !.functDeclParsing = FALSE], ret)
                   ELSE IF Len(e.bracesMatcher) > 0 /\ e.functDeclStartParseIdx = -1
                   THEN [d |-> [e EXCEPT !.functDeclStartParseIdx = currentTokIndex,
                                         !.functDeclParsing = TRUE],
                         ret |-> ret]
                   ELSE [d |-> e, ret |-> ret])
        Updated(ret, spaced) ==
            IF spaced.threw THEN PYDetectionThrew(spaced.d, spaced.error)
            ELSE Spaced(ret, spaced.d)
        First(before) ==
            Updated(before.ret, PythonParser_updateCodeBlocksBracesAndSpacingsState(
                                    before.d, token, currentTokIndex))
    IN IF token = NullSourceToken
       THEN PYDetection(d, SymbolAdditionDirective("FILLER", NullTokenRange,
                                                   "undefined", -1, -1),
                        NoInfo, NoInfo)
       ELSE First(first)

\* The detector updateTokenStreamState calls for the non-terminal.
PythonParser_detect(d, nonTerminal, token, currentTokIndex, depth) ==
    CASE nonTerminal \in {"TOP_LEVEL", "CLASSES"} ->
            PythonParser_detectCodeBlocks(d, token, depth, currentTokIndex)
      [] nonTerminal = "FUNCTIONS" ->
            PythonParser_detectFunctionsSymbol(d, token, currentTokIndex)
      [] nonTerminal = "FUNCTION_BODY" ->
            PythonParser_detectFunctionBodySymbol(d, token, currentTokIndex)
      [] nonTerminal = "FUNCTION_DECLARATION" ->
            PythonParser_detectFunctionDeclarationSymbol(d, token, currentTokIndex)

\* Scenario S1: a class with an attribute and a documented method.
PYClassWithMethod ==
    << <<"c", "l", "a", "s", "s", " ", "A", ":">>,
       <<" ", " ", " ", " ", "x", ":", " ", "i", "n", "t", " ", "=", " ", "1">>,
       <<" ", " ", " ", " ", "d", "e", "f", " ", "m", "(", "s", "e", "l", "f", ",", " ", "n",
         ":", " ", "i", "n", "t", ")", " ", "-", ">", " ", "b", "o", "o", "l", ":">>,
       <<" ", " ", " ", " ", " ", " ", " ", " ", "\"", "\"", "\"", "d", "o", "c", "\"", "\"",
         "\"">>,
       <<" ", " ", " ", " ", " ", " ", " ", " ", "r", "e", "t", "u", "r", "n", " ", "n", " ",
         ">", " ", "0">> >>

\* Scenario S4: a statement continued inside a parenthesis, its second line
\* indented by one space.
PYContinuedStatement ==
    << <<"x", " ", "=", " ", "(", "1", " ", "+">>,
       <<" ", "2", ")">> >>

\* The statement of S4 with its second line indented by four spaces.
PYContinuedStatementFour ==
    << <<"x", " ", "=", " ", "(", "1", " ", "+">>,
       <<" ", " ", " ", " ", "2", ")">> >>

\* An indented statement with a closing bracket that has no opening bracket.
PYUnmatchedClosing ==
    << <<"i", "f", " ", "a", ":">>,
       <<" ", " ", " ", " ", "x", " ", "=", " ", "1", ")">> >>

\* An indented statement with a closing bracket of the wrong kind.
PYWrongClosing ==
    << <<"i", "f", " ", "a", ":">>,
       <<" ", " ", " ", " ", "x", " ", "=", " ", "(", "1", "]">> >>

\* An indented statement whose opening bracket is still open at the end of input.
PYUnclosedOpening ==
    << <<"i", "f", " ", "a", ":">>,
       <<" ", " ", " ", " ", "x", " ", "=", " ", "(", "1">> >>

\* The same statement with no indented line in the source.
PYUnclosedOpeningFlat ==
    << <<"x", " ", "=", " ", "(", "1">> >>

PYSources ==
    {PYClassWithMethod, PYContinuedStatement, PYContinuedStatementFour,
     PYUnmatchedClosing, PYWrongClosing, PYUnclosedOpening, PYUnclosedOpeningFlat}

\* A new PythonParser: the constructor ends with resetDetectionState.
PYInit ==
    /\ pyd = PythonParser_resetDetectionState(PythonParserNew, 0, "TOP_LEVEL")
    /\ creationInfo = <<>>
    /\ nodeInfo = <<>>
    /\ psCommentBeforeFunction = FALSE
    /\ psVocabulary = {"CLASSES", "FUNCTIONS", "FUNCTION_DECLARATION", "FUNCTION_BODY",
                       "ARGUMENT", "ATTRIBUTES", "REFERENCES", "FILLER", "STATEMENTS_FILLER",
                       "COMMENT_SINGLELINE", "COMMENT_MULTILINE"}
    /\ psStatus = "new"
    /\ psError = "none"
    /\ sourceLines = <<>>
    /\ sourceTokens = <<>>
    /\ positionMap = <<>>
    /\ nodes = <<>>
    /\ frame = NoFrame
    /\ pending = <<>>
    /\ ftMode = "none"
    /\ ftExclude = FALSE
    /\ ftTokens = <<>>
    /\ ftThrew = FALSE
    /\ ftReplace = NoReplace

\* parse(codeLines) of the PythonParser up to the loop of
\* parseNonTerminal(TOP_LEVEL, ...): the PythonTokenizer is fed, preparse
\* detects the indentation, and the detection state is reset.
PYParse ==
    /\ psStatus = "new"
    /\ \E codeLines \in PYSources :
          /\ sourceLines' = codeLines
          /\ IF ParseRejectsEmpty(codeLines)
             THEN /\ PSThrow("CodeParsingError")
                  /\ UNCHANGED <<sourceTokens, positionMap, pyVars>>
             ELSE \E lexed \in {PYFreshTokens(ParseFedChars(codeLines, 1))} :
                  \E prepared \in {PythonParser_preparse(pyd, codeLines)} :
                     /\ sourceTokens' = lexed.tokens
                     /\ positionMap' = PSPositionsFrom(codeLines, 0)
                     /\ IF lexed.threw \/ prepared.threw
                        THEN /\ PSThrow(IF lexed.threw THEN "Error" ELSE prepared.error)
                             /\ UNCHANGED pyVars
                        ELSE /\ nodes' = <<Node("TopLevel", getMaxRange(codeLines), FALSE)>>
                             /\ frame' = Frame("TOP_LEVEL", 1,
                                               TokenRange(0, Len(lexed.tokens)), 0)
                             /\ pending' = <<>>
                             /\ psStatus' = "parsing"
                             /\ psError' = "none"
                             /\ pyd' = PythonParser_resetDetectionState(
                                          prepared.d, 0, "TOP_LEVEL")
                             /\ creationInfo' = <<>>
                             /\ nodeInfo' = <<NoInfo>>
    /\ UNCHANGED <<psCommentBeforeFunction, psVocabulary, ftMode, ftExclude, ftTokens,
                   ftThrew, ftReplace>>

\* The nodeCreationInformation array after updateTokenStreamState pushed the
\* symbols of a directive.
PYPushed(infos, before, after, a) ==
    LET pushed == Len(after.state) - Len(before.state) IN
    IF pushed = 0 THEN infos
    ELSE IF pushed = 1 THEN Append(infos, a.info)
    ELSE Append(Append(infos, a.info), a.secondInfo)

\* One iteration of the loop of parseNonTerminal, lines 164-173, with the
\* detectors of the PythonParser.
PYDetect ==
    /\ psStatus = "parsing"
    /\ ~frame.concluded
    /\ frame.currentTokIndex < frame.endTok
    /\ \E a \in {PythonParser_detect(pyd, frame.nonTerminal,
                    sourceTokens[frame.currentTokIndex + 1], frame.currentTokIndex,
                    frame.depth)} :
          /\ pyd' = a.d
          /\ UNCHANGED nodeInfo
          /\ IF a.threw THEN PSThrow(a.error) /\ UNCHANGED creationInfo
             ELSE \E r \in {updateTokenStreamState(
                              [frame EXCEPT !.tokenBuffer = Append(@, frame.currentTokIndex)],
                              a.dir)} :
                     IF r.threw THEN PSThrow(r.error) /\ UNCHANGED creationInfo
                     ELSE /\ frame' = [r.f EXCEPT !.currentTokIndex = @ + 1]
                          /\ creationInfo' = PYPushed(creationInfo, frame, r.f, a)
                          /\ UNCHANGED <<psStatus, psError, nodes, pending>>
    /\ UNCHANGED <<psCommentBeforeFunction, psVocabulary, sourceLines, sourceTokens, positionMap,
                   ftMode, ftExclude, ftTokens, ftThrew, ftReplace>>

\* The concluding call, the check for non-parsed tokens and the validation,
\* lines 175-201, with the detectors of the PythonParser.
PYConclude ==
    /\ psStatus = "parsing"
    /\ ~frame.concluded
    /\ frame.currentTokIndex >= frame.endTok
    /\ \E a \in {PythonParser_detect(pyd, frame.nonTerminal, NullSourceToken,
                                     frame.currentTokIndex, frame.depth)} :
          /\ pyd' = a.d
          /\ UNCHANGED nodeInfo
          /\ IF a.threw THEN PSThrow(a.error) /\ UNCHANGED creationInfo
             ELSE \E r \in {updateTokenStreamState(frame, a.dir)} :
                     IF r.threw THEN PSThrow(r.error) /\ UNCHANGED creationInfo
                     ELSE IF r.f.parsedEndTokIndex # frame.endTok
                     THEN PSThrow("CodeParsingError") /\ UNCHANGED creationInfo
                     ELSE IF ~validateParsingState(frame.nonTerminal, r.f.state)
                     THEN PSThrow("CodeParserImplError") /\ UNCHANGED creationInfo
                     ELSE /\ frame' = [r.f EXCEPT !.concluded = TRUE]
                          /\ creationInfo' = PYPushed(creationInfo, frame, r.f, a)
                          /\ UNCHANGED <<psStatus, psError, nodes, pending>>
    /\ UNCHANGED <<psCommentBeforeFunction, psVocabulary, sourceLines, sourceTokens, positionMap,
                   ftMode, ftExclude, ftTokens, ftThrew, ftReplace>>

\* One iteration of the loop of lines 205-207: resolveIntoNode on the next
\* symbol with the createXNode methods of the PythonParser, which read the
\* nodeCreationInformation of the symbol and override the inner range of a
\* Classes or Functions node.
PYResolve ==
    /\ psStatus = "parsing"
    /\ frame.concluded
    /\ Len(frame.childNodes) < Len(frame.state)
    /\ LET i == Len(frame.childNodes) + 1
           detectedType == frame.state[i]
           detectedRange == frame.symbolRange[i]
           info == creationInfo[i]
           kind == NodeKindOf(detectedType)
       IN IF ~resolveDereferences(sourceTokens, detectedRange)
          THEN PSThrow("TypeError") /\ UNCHANGED nodeInfo
          ELSE IF kind = "null"
          THEN /\ frame' = [frame EXCEPT !.childNodes = Append(@, 0)]
               /\ UNCHANGED <<psStatus, psError, nodes, pending, nodeInfo>>
          ELSE IF info = NoInfo
          THEN PSThrow("TypeError") /\ UNCHANGED nodeInfo
          ELSE \E range \in {resolveRange(sourceTokens, positionMap, detectedRange)} :
                  IF /\ kind \in {"Classes", "Functions"}
                     /\ ~contains(range, info.innerRange)
                  THEN PSThrow("Error") /\ UNCHANGED nodeInfo
                  ELSE /\ nodes' = Append(nodes,
                              [Node(kind, range, detectedType = "COMMENT_MULTILINE")
                                  EXCEPT !.innerRangeOverride = info.innerRange])
                       /\ nodeInfo' = Append(nodeInfo, info)
                       /\ frame' = [frame EXCEPT !.childNodes = Append(@, Len(nodes) + 1)]
                       /\ UNCHANGED <<psStatus, psError, pending>>
    /\ UNCHANGED <<psCommentBeforeFunction, psVocabulary, sourceLines, sourceTokens, positionMap,
                   ftMode, ftExclude, ftTokens, ftThrew, ftReplace, pyd, creationInfo>>

\* Lines 211-306 and line 154 of the parseNonTerminal call that starts: the
\* FunctionGroups nodes the loop makes are given no nodeCreationInformation.
PYAttach ==
    /\ PSAttach
    /\ pyd' = IF psStatus' = "parsing"
              THEN PythonParser_resetDetectionState(pyd, frame'.startTok, frame'.nonTerminal)
              ELSE pyd
    /\ creationInfo' = <<>>
    /\ nodeInfo' = nodeInfo \o [k \in 1..(Len(nodes') - Len(nodeInfo)) |-> NoInfo]

InitPython == PYInit /\ EMIdle /\ BMIdle /\ TKIdle /\ TSIdle
NextPython ==
    \/ PYParse /\ UNCHANGED <<emVars, bmVars, tkVars, tsVars>>
    \/ PYDetect /\ UNCHANGED <<emVars, bmVars, tkVars, tsVars>>
    \/ PYConclude /\ UNCHANGED <<emVars, bmVars, tkVars, tsVars>>
    \/ PYResolve /\ UNCHANGED <<emVars, bmVars, tkVars, tsVars>>
    \/ PYAttach /\ UNCHANGED <<emVars, bmVars, tkVars, tsVars>>
SpecPython == InitPython /\ [][NextPython]_vars

\* ------------------------------------------------------------------------
\* TypeScriptParser: the detector of TOP_LEVEL and CLASSES, and parse()
\* ------------------------------------------------------------------------

\* String.prototype.replace(/\r\n|\r|\n|\t/g, " ") from index i on.
RECURSIVE ReplaceLineBreaks(_, _)
ReplaceLineBreaks(s, i) ==
    IF i > Len(s) THEN <<>>
    ELSE IF s[i] = "\r" /\ i < Len(s) /\ s[i + 1] = "\n"
    THEN <<" ">> \o ReplaceLineBreaks(s, i + 2)
    ELSE IF s[i] \in {"\r", "\n", "\t"} THEN <<" ">> \o ReplaceLineBreaks(s, i + 1)
    ELSE <<s[i]>> \o ReplaceLineBreaks(s, i + 1)

stripString(str) == Trim(ReplaceLineBreaks(str, 1))

\* The words the detector of code blocks compares tokens with.
KeywordImport == <<"i", "m", "p", "o", "r", "t">>
KeywordExport == <<"e", "x", "p", "o", "r", "t">>
KeywordFrom == <<"f", "r", "o", "m">>
KeywordClass == <<"c", "l", "a", "s", "s">>
KeywordInterface == <<"i", "n", "t", "e", "r", "f", "a", "c", "e">>
KeywordFunction == <<"f", "u", "n", "c", "t", "i", "o", "n">>

\* TypeScriptParser.attemptConcludeCodeBlock: whether a symbol is created,
\* the symbol with its nodeCreationInformation and parseRange, and the parser
\* (argumentMatcher.reset() changes it).
TypeScriptParser_attemptConcludeCodeBlock(d, symbolToDetect) ==
    LET ts == d.cbSymbTokenStream
        n == Len(ts)
        Create(e, symbolType, info, parseRange) ==
            [d |-> e, create |-> TRUE, symbolType |-> symbolType, info |-> info,
             parseRange |-> parseRange, threw |-> FALSE]
        Invalidate(e) ==
            [d |-> e, create |-> FALSE, symbolType |-> "undefined", info |-> NoInfo,
             parseRange |-> NullTokenRange, threw |-> FALSE]
        Unexpected ==
            [d |-> d, create |-> FALSE, symbolType |-> "undefined", info |-> NoInfo,
             parseRange |-> NullTokenRange, threw |-> TRUE]
        references ==
            IF /\ n >= 3
               /\ ts[1].stringContents \in {KeywordImport, KeywordExport}
               /\ ts[n - 1].stringContents = KeywordFrom
               /\ ts[n].tokenType = "STRINGS"
            THEN Create(d, "REFERENCES",
                        CreationInfo(NullString, NullString,
                            stripString(Substring(d.cbSymbStringStream, 0,
                                                  Len(d.cbSymbStringStream) - 1)),
                            NullRange),
                        NullTokenRange)
            ELSE Invalidate(d)
        classes ==
            IF /\ d.cbSymbClassOpeningBrace # -1
               /\ d.cbSymbClassClosingBrace # -1
               /\ d.cbSymbClassDefnText # NullString
            THEN LET tokRange == TokenRange(d.cbSymbClassOpeningBrace + 1,
                                            d.cbSymbClassClosingBrace)
                     range == getRange(positionMap, sourceTokens[tokRange.startTok + 1].start,
                                       sourceTokens[tokRange.endTok + 1].start)
                 IN Create(d, "CLASSES",
                           CreationInfo(NullString, NullString, d.cbSymbClassDefnText, range),
                           tokRange)
            ELSE Invalidate(d)
        functions ==
            IF /\ d.cbSymbFuncOpeningBracket # -1
               /\ d.cbSymbFuncClosingBracket # -1
               /\ d.cbSymbFuncOpeningBrace # -1
               /\ d.cbSymbFuncClosingBrace # -1
               /\ d.cbSymbFuncDefnText # NullString
               /\ d.cbSymbFuncClosingBrace - d.cbSymbFuncOpeningBrace > 1
            THEN LET range == getRange(positionMap,
                                  sourceTokens[d.cbSymbFuncOpeningBrace + 2].start,
                                  sourceTokens[d.cbSymbFuncClosingBrace + 1].start)
                 IN Create(d, "FUNCTIONS",
                           CreationInfo(NullString, NullString, d.cbSymbFuncDefnText, range),
                           NullTokenRange)
            ELSE Invalidate(d)
        attributes ==
            LET action == TypeScriptVarDeclMatcher_reset(d.argumentMatcher)
                e == [d EXCEPT !.argumentMatcher = action.m]
            IN IF action.found /\ action.type # NullString
               THEN Create(e, "ATTRIBUTES",
                           CreationInfo(Trim(d.argumentMatcher.nameBuffer), Trim(action.type),
                                        NullString, NullRange),
                           NullTokenRange)
               ELSE Invalidate(e)
    IN IF d.parseType = "TOP_LEVEL"
       THEN CASE symbolToDetect = "REFERENCES" -> references
              [] symbolToDetect = "CLASSES" -> classes
              [] symbolToDetect = "FUNCTIONS" -> functions
              [] OTHER -> Unexpected
       ELSE IF d.parseType = "CLASSES"
       THEN CASE symbolToDetect = "ATTRIBUTES" -> attributes
              [] symbolToDetect = "FUNCTIONS" -> functions
              [] OTHER -> Unexpected
       ELSE Unexpected

\* A directive whose secondSymbol carries a parseRange.
WithSecondParseRange(dir, parseRange) == [secondParseRange |-> parseRange] @@ dir

\* TypeScriptParser.detectSymbolsAsCodeBlocks.
TypeScriptParser_detectSymbolsAsCodeBlocks(d, token, currentTokIndex, startStatementIdx) ==
    LET s == token.stringContents
        spacing == token.tokenType = "SPACINGS"
        maps == BMCtor(TSTypeBraces)
        checkCodeEndCondition ==
            \/ s = <<"\n">> /\ Len(d.bracesMatcher) = 0
            \/ s = <<";">> /\ Len(d.curlyBracesMatcher) = 0
        reset ==
            IF startStatementIdx = 0
            THEN [d EXCEPT !.cbSymbSpacesTextsOnly = TRUE,
                           !.cbSymbAttemptedDetect = FALSE,
                           !.cbSymbStringStream = <<>>,
                           !.cbSymbTokenStream = <<>>,
                           !.cbSymbClassOpeningBrace = -1,
                           !.cbSymbClassClosingBrace = -1,
                           !.cbSymbClassDefnText = NullString,
                           !.cbSymbFuncOpeningBracket = -1,
                           !.cbSymbFuncClosingBracket = -1,
                           !.cbSymbFuncOpeningBrace = -1,
                           !.cbSymbFuncClosingBrace = -1,
                           !.cbSymbFuncDefnText = NullString,
                           !.cbSymbFuncPreviousImmediatelyColon = FALSE,
                           !.cbSymbFuncRetTypeBracesMatcher = <<>>]
            ELSE d
        e == [reset EXCEPT
                !.cbSymbStringStream = @ \o s,
                !.cbSymbTokenStream =
                    IF ~spacing
                    THEN Append(@, [tokenType |-> token.tokenType, stringContents |-> s])
                    ELSE @]
        text == stripString(Substring(e.cbSymbStringStream, 0, Len(e.cbSymbStringStream) - 1))
        \* What a branch leaves: the parser, the action (none when null), the exception.
        Step(g) == [d |-> g, act |-> FALSE, action |-> "none", threw |-> FALSE, error |-> "none"]
        Concluded(c) ==
            [d |-> c.d, act |-> TRUE, action |-> c, threw |-> c.threw, error |-> "Error"]
        Threw(g, error) ==
            [d |-> g, act |-> FALSE, action |-> "none", threw |-> TRUE, error |-> error]
        Upgrade(symbolType) ==
            [e EXCEPT !.codeBlocksSymbolToDetect = symbolType, !.cbSymbAttemptedDetect = TRUE]
        Downgrade(g) ==
            [g EXCEPT !.codeBlocksHasContents = TRUE,
                      !.codeBlocksSymbolToDetect = "STATEMENTS_FILLER"]
        Coloned(g) ==
            [g EXCEPT !.cbSymbFuncPreviousImmediatelyColon =
                          IF s = <<":">> THEN TRUE ELSE IF ~spacing THEN FALSE ELSE @]
        \* The bracket and brace pairs of a function; a method has its opening
        \* bracket already.
        functionsStep ==
            IF checkCodeEndCondition
            THEN Concluded(TypeScriptParser_attemptConcludeCodeBlock(e, "FUNCTIONS"))
            ELSE IF e.parseType = "TOP_LEVEL" /\ e.cbSymbFuncOpeningBracket = -1
            THEN Step(Coloned(IF s = <<"(">> /\ Len(e.bracesMatcher) = 0
                              THEN [e EXCEPT !.cbSymbFuncOpeningBracket = currentTokIndex]
                              ELSE e))
            ELSE IF e.cbSymbFuncClosingBracket = -1
            THEN Step(Coloned(IF s = <<")">> /\ Len(e.bracesMatcher) = 1
                              THEN [e EXCEPT !.cbSymbFuncClosingBracket = currentTokIndex]
                              ELSE e))
            ELSE IF e.cbSymbFuncOpeningBrace = -1
            THEN LET opened ==
                         IF /\ Len(e.cbSymbFuncRetTypeBracesMatcher) = 0
                            /\ ~e.cbSymbFuncPreviousImmediatelyColon
                            /\ s = <<"{">>
                         THEN [e EXCEPT !.cbSymbFuncDefnText = text,
                                        !.cbSymbFuncOpeningBrace = currentTokIndex,
                                        !.cbSymbFuncRetTypeBracesMatcher = <<>>]
                         ELSE e
                     r == BMNextResult(maps.o2c, maps.c2o,
                                       opened.cbSymbFuncRetTypeBracesMatcher, s[1])
                 IN IF token.tokenType = "BRACES" \/ s \in {<<"<">>, <<">">>}
                    THEN IF r.threw THEN Threw(opened, "CodeParsingError")
                         ELSE Step(Coloned([opened EXCEPT
                                              !.cbSymbFuncRetTypeBracesMatcher = r.stack]))
                    ELSE Step(Coloned(opened))
            ELSE IF e.cbSymbFuncClosingBrace = -1
            THEN Step(Coloned(IF Len(e.curlyBracesMatcher) = 1 /\ s = <<"}">>
                              THEN [e EXCEPT !.cbSymbFuncClosingBrace = currentTokIndex]
                              ELSE e))
            ELSE IF ~spacing THEN Step(Coloned(Downgrade(e)))
            ELSE Step(Coloned(e))
        topLevel ==
            CASE e.codeBlocksSymbolToDetect = "STATEMENTS_FILLER" ->
                    IF e.cbSymbAttemptedDetect THEN Step(e)
                    ELSE IF startStatementIdx = 0 /\ s = KeywordImport
                    THEN Step(Upgrade("REFERENCES"))
                    ELSE IF Len(e.cbSymbTokenStream) = 0 THEN Threw(e, "TypeError")
                    ELSE IF e.cbSymbTokenStream[1].stringContents = KeywordExport
                            /\ s = KeywordFrom
                    THEN Step(Upgrade("REFERENCES"))
                    ELSE IF e.cbSymbSpacesTextsOnly /\ s \in {KeywordClass, KeywordInterface}
                    THEN Step(Upgrade("CLASSES"))
                    ELSE IF e.cbSymbSpacesTextsOnly /\ s = KeywordFunction
                    THEN Step(Upgrade("FUNCTIONS"))
                    ELSE Step(e)
              [] e.codeBlocksSymbolToDetect = "REFERENCES" ->
                    IF checkCodeEndCondition
                    THEN Concluded(TypeScriptParser_attemptConcludeCodeBlock(e, "REFERENCES"))
                    ELSE Step(e)
              [] e.codeBlocksSymbolToDetect = "CLASSES" ->
                    IF checkCodeEndCondition
                    THEN Concluded(TypeScriptParser_attemptConcludeCodeBlock(e, "CLASSES"))
                    ELSE IF e.cbSymbClassOpeningBrace # -1
                    THEN IF e.cbSymbClassClosingBrace # -1 /\ ~spacing
                         THEN Step(Downgrade(e))
                         ELSE IF s = <<"}">> /\ Len(e.bracesMatcher) = 1
                         THEN Step([e EXCEPT !.cbSymbClassClosingBrace = currentTokIndex])
                         ELSE Step(e)
                    ELSE IF s = <<"{">> /\ Len(e.bracesMatcher) = 0
                    THEN Step([e EXCEPT !.cbSymbClassOpeningBrace = currentTokIndex,
                                        !.cbSymbClassDefnText = text])
                    ELSE Step(e)
              [] e.codeBlocksSymbolToDetect = "FUNCTIONS" -> functionsStep
              [] OTHER -> Step(e)
        classes ==
            CASE e.codeBlocksSymbolToDetect = "STATEMENTS_FILLER" ->
                    IF e.cbSymbAttemptedDetect THEN Step(e)
                    ELSE IF /\ Len(e.cbSymbTokenStream) >= 2
                            /\ s = <<":">>
                            /\ Len(e.bracesMatcher) = 0
                            /\ e.cbSymbSpacesTextsOnly
                    THEN LET n == Len(e.cbSymbTokenStream)
                             g == Upgrade("ATTRIBUTES")
                             Two(two) ==
                                 IF two.threw
                                 THEN Threw([g EXCEPT !.argumentMatcher = two.m], "Error")
                                 ELSE Step([g EXCEPT !.argumentMatcher = two.m])
                             One(one) ==
                                 IF one.threw
                                 THEN Threw([g EXCEPT !.argumentMatcher = one.m], "Error")
                                 ELSE Two(TypeScriptVarDeclMatcher_next(
                                              one.m, e.cbSymbTokenStream[n]))
                         IN One(TypeScriptVarDeclMatcher_next(
                                    TypeScriptVarDeclMatcher_reset(e.argumentMatcher).m,
                                    e.cbSymbTokenStream[n - 1]))
                    ELSE IF e.cbSymbSpacesTextsOnly /\ s = <<"(">> /\ Len(e.bracesMatcher) = 0
                    THEN Step([Upgrade("FUNCTIONS") EXCEPT
                                  !.cbSymbFuncOpeningBracket = currentTokIndex])
                    ELSE Step(e)
              [] e.codeBlocksSymbolToDetect = "ATTRIBUTES" ->
                    IF checkCodeEndCondition
                    THEN Concluded(TypeScriptParser_attemptConcludeCodeBlock(e, "ATTRIBUTES"))
                    ELSE LET Fed(fed) ==
                                 IF fed.threw
                                 THEN Threw([e EXCEPT !.argumentMatcher = fed.m], "Error")
                                 ELSE Step([e EXCEPT !.argumentMatcher = fed.m])
                         IN Fed(TypeScriptVarDeclMatcher_next(e.argumentMatcher, token))
              [] e.codeBlocksSymbolToDetect = "FUNCTIONS" -> functionsStep
              [] OTHER -> Step(e)
        Marked(h) ==
            [h EXCEPT !.cbSymbSpacesTextsOnly =
                          IF token.tokenType \in {"SPACINGS", "OTHERS"} THEN @ ELSE FALSE]
        \* Lines 745-775: what the branch returned becomes the directive.
        Acted(g, c) ==
            LET fillerType == IF g.codeBlocksHasContents THEN "STATEMENTS_FILLER" ELSE "FILLER"
                noGap == g.codeBlocksStartOfPotentialDetection
                             - g.codeBlocksLastSymbolDetectionEnd = 1
                h == [g EXCEPT !.codeBlocksLastSymbolDetectionEnd = currentTokIndex - 1,
                               !.codeBlocksSymbolToDetect = "STATEMENTS_FILLER"]
            IN IF ~c.create
               THEN PYDetection(Marked(Downgrade(g)), NullSAD, NoInfo, NoInfo)
               ELSE IF noGap
               THEN PYDetection(Marked(h),
                        SymbolAdditionDirective(c.symbolType, c.parseRange, "undefined", 1, -1),
                        c.info, NoInfo)
               ELSE PYDetection(Marked(h),
                        WithSecondParseRange(
                            SymbolAdditionDirective(fillerType, NullTokenRange, c.symbolType,
                                currentTokIndex - g.codeBlocksStartOfPotentialDetection, 1),
                            c.parseRange),
                        NoInfo, c.info)
        Branched(branched) ==
            IF branched.threw THEN PYDetectionThrew(branched.d, branched.error)
            ELSE IF ~branched.act
            THEN PYDetection(Marked(branched.d), NullSAD, NoInfo, NoInfo)
            ELSE Acted(branched.d, branched.action)
    IN Branched(IF e.parseType = "TOP_LEVEL" THEN topLevel
                ELSE IF e.parseType = "CLASSES" THEN classes
                ELSE Threw(e, "Error"))

\* TypeScriptParser.detectCodeBlocks, the detector of TOP_LEVEL and CLASSES.
TypeScriptParser_detectCodeBlocks(d, token, currentTokIndex) ==
    LET s == token.stringContents
        fillerType == IF d.codeBlocksHasContents THEN "STATEMENTS_FILLER" ELSE "FILLER"
        OnlySymbol(symbolType) ==
            SymbolAdditionDirective(symbolType, NullTokenRange, "undefined", -1, -1)
        \* The conclusion at the null token.
        gap == d.codeBlocksStartOfPotentialDetection - d.codeBlocksLastSymbolDetectionEnd - 1
        Concluding(concluding) ==
            IF concluding.threw THEN PYDetectionThrew(concluding.d, "Error")
            ELSE IF ~concluding.create
            THEN PYDetection(concluding.d, OnlySymbol("STATEMENTS_FILLER"), NoInfo, NoInfo)
            ELSE IF gap > 0
            THEN PYDetection(concluding.d,
                     WithSecondParseRange(
                         SymbolAdditionDirective(fillerType, NullTokenRange, concluding.symbolType,
                             currentTokIndex - d.codeBlocksStartOfPotentialDetection, -1),
                         concluding.parseRange),
                     NoInfo, concluding.info)
            ELSE PYDetection(concluding.d,
                     SymbolAdditionDirective(concluding.symbolType, concluding.parseRange,
                                             "undefined", -1, -1),
                     concluding.info, NoInfo)
        atEnd ==
            IF d.codeBlocksSymbolToDetect = "STATEMENTS_FILLER"
            THEN PYDetection(d, OnlySymbol(fillerType), NoInfo, NoInfo)
            ELSE Concluding(TypeScriptParser_attemptConcludeCodeBlock(
                                d, d.codeBlocksSymbolToDetect))
        \* Lines 417-425: the first token of a statement resets the detection.
        startStatementIdx == currentTokIndex - d.mostRecentStatementsEndTokIdx - 1
        e == IF startStatementIdx = 0
             THEN [d EXCEPT !.codeBlocksSymbolToDetect = "STATEMENTS_FILLER",
                            !.codeBlocksHasContents =
                                IF d.codeBlocksSymbolToDetect # "STATEMENTS_FILLER"
                                THEN TRUE ELSE @,
                            !.codeBlocksHasComments = FALSE]
             ELSE d
        fillerTypeNow == IF e.codeBlocksHasContents THEN "STATEMENTS_FILLER" ELSE "FILLER"
        priorFillerLength == currentTokIndex - e.codeBlocksLastSymbolDetectionEnd - 1
        isBlockComment == /\ token.tokenType = "MULTILINE_COMMENTS_OR_STRINGS"
                          /\ Len(s) >= 2
                          /\ SubSeq(s, 1, 2) = <<"/", "*">>
                          /\ SubSeq(s, Len(s) - 1, Len(s)) = <<"*", "/">>
        Comment(symbolType, comments) ==
            PYDetection([e EXCEPT !.codeBlocksHasComments = TRUE,
                                  !.codeBlocksLastSymbolDetectionEnd = currentTokIndex,
                                  !.codeBlocksHasContents = FALSE],
                        IF priorFillerLength = 0 THEN OnlySymbol(symbolType)
                        ELSE SymbolAdditionDirective(fillerTypeNow, NullTokenRange, symbolType,
                                                     -1, -1),
                        IF priorFillerLength = 0 THEN CommentInfo(comments) ELSE NoInfo,
                        IF priorFillerLength = 0 THEN NoInfo ELSE CommentInfo(comments))
        started == IF e.continuousSpacingsAfterTerminateStatements
                   THEN [e EXCEPT !.codeBlocksStartOfPotentialDetection = currentTokIndex]
                   ELSE e
        \* Line 526: the braces and the ends of statements are updated last.
        Updated(found, updated) ==
            IF updated.threw THEN PYDetectionThrew(updated.d, updated.error)
            ELSE PYDetection(updated.d, found.dir, found.info, found.secondInfo)
        Detected(found) ==
            IF found.threw THEN found
            ELSE Updated(found, updateBracesAndTerminateStatementsState(
                                    found.d, token, currentTokIndex))
    IN IF token = NullSourceToken THEN atEnd
       ELSE Detected(
            IF e.codeBlocksSymbolToDetect # "STATEMENTS_FILLER"
            THEN TypeScriptParser_detectSymbolsAsCodeBlocks(e, token, currentTokIndex,
                     currentTokIndex - e.codeBlocksStartOfPotentialDetection)
            ELSE IF token.tokenType = "SINGLELINE_COMMENTS"
            THEN Comment("COMMENT_SINGLELINE", Substring(s, 2, Len(s)))
            ELSE IF isBlockComment
            THEN Comment("COMMENT_MULTILINE", Substring(s, 2, Len(s) - 2))
            ELSE IF ~e.codeBlocksHasComments
            THEN IF ~e.continuousSpacingsAfterTerminateStatements
                       \/ token.tokenType # "SPACINGS"
                 THEN TypeScriptParser_detectSymbolsAsCodeBlocks(
                          started, token, currentTokIndex,
                          currentTokIndex - started.codeBlocksStartOfPotentialDetection)
                 ELSE PYDetection(e, NullSAD, NoInfo, NoInfo)
            ELSE PYDetection([e EXCEPT !.codeBlocksHasContents =
                                           IF token.tokenType # "SPACINGS" THEN TRUE ELSE @],
                             NullSAD, NoInfo, NoInfo))

\* Scenario S3: a doc comment before a function with empty braces.
TSDocumentedFunction ==
    << <<"/", "*", "*", " ", "h", "e", "l", "l", "o", " ", "*", "/">>,
       <<"f", "u", "n", "c", "t", "i", "o", "n", " ", "f", "(", ")", " ",
         "{", "}">> >>

\* The source of S3 with a space between the braces.
TSDocumentedFunctionSpaced ==
    << <<"/", "*", "*", " ", "h", "e", "l", "l", "o", " ", "*", "/">>,
       <<"f", "u", "n", "c", "t", "i", "o", "n", " ", "f", "(", ")", " ",
         "{", " ", "}">> >>

\* Scenario S2: an import and a class with an attribute and a method.
TSImportAndClass ==
    << <<"i", "m", "p", "o", "r", "t", " ", "{", "X", "}", " ", "f", "r",
         "o", "m", " ", "\"", ".", "/", "m", "o", "d", "\"", ";">>,
       <<"c", "l", "a", "s", "s", " ", "B", " ", "{", " ", "y", ":", " ",
         "s", "t", "r", "i", "n", "g", " ", "=", " ", "\"", "h", "i", "\"",
         ";", " ", "f", "n", "(", "a", ":", " ", "n", "u", "m", "b", "e",
         "r", ")", ":", " ", "v", "o", "i", "d", " ", "{", " ", "r", "e",
         "t", "u", "r", "n", ";", " ", "}", " ", "}">> >>

\* A statement with a closing bracket that has no opening bracket.
TSUnmatchedClosing ==
    << <<"f", "(", "a", ")", ")">> >>

\* A statement with a closing bracket of the wrong kind.
TSWrongClosing ==
    << <<"f", "(", "a", "]">> >>

\* A statement whose opening bracket is still open at the end of input.
TSUnclosedOpening ==
    << <<"f", "(", "a">> >>

\* A top-level for statement: semicolons inside parentheses, no curly brace
\* open.
TSForStatement ==
    << <<"f", "o", "r", " ", "(", "a", ";", " ", "b", ";", " ", "c", ")", " ",
         "{", " ", "}">> >>

TSSources ==
    {TSDocumentedFunction, TSDocumentedFunctionSpaced, TSImportAndClass,
     TSUnmatchedClosing, TSWrongClosing, TSUnclosedOpening, TSForStatement}

\* The switch of updateTokenStreamState, lines 316-333, for every
\* non-terminal. The strings in the nodeCreationInformation of the symbols of
\* the three detectors of a function are left out.
TypeScriptParser_detectSymbol(d, nonTerminal, token, currentTokIndex) ==
    IF nonTerminal \in {"TOP_LEVEL", "CLASSES"}
    THEN TypeScriptParser_detectCodeBlocks(d, token, currentTokIndex)
    ELSE LET Detected(a) == [d |-> a.d, dir |-> a.dir, info |-> NoInfo, secondInfo |-> NoInfo,
                             threw |-> a.threw, error |-> a.error]
         IN Detected(TypeScriptParser_detect(d, nonTerminal, token, currentTokIndex))

\* What a TypeScriptTokenizer holds after next(ch) was called with the
\* characters s[lo..hi] in order, stopping at the first call that throws; the
\* loop of parse() is folded by halves.
RECURSIVE TSParseFeed(_, _, _, _, _)
TSParseFeed(t, lx, s, lo, hi) ==
    IF lo > hi THEN [t |-> t, lx |-> lx, threw |-> FALSE]
    ELSE IF lo = hi THEN TSNextChar(t, lx, s[lo])
    ELSE LET mid == (lo + hi) \div 2
             Second(first) == IF first.threw THEN first
                              ELSE TSParseFeed(first.t, first.lx, s, mid + 1, hi)
         IN Second(TSParseFeed(t, lx, s, lo, mid))

\* The tokens a new TypeScriptTokenizer makes of the characters parse() feeds
\* it and then null, and whether a next() call threw.
TSParseTokens(s) ==
    LET Fed(r) ==
            IF r.threw THEN [tokens |-> <<>>, threw |-> TRUE]
            ELSE [tokens |-> ATEnd(r.t, TSMatchEndCharacter(r.lx)).tokenString,
                  threw |-> FALSE]
    IN Fed(TSParseFeed(ATInitial, TSInitial, s, 1, Len(s)))

\* A new TypeScriptParser: the constructor ends with resetDetectionState.
TSTopInit ==
    /\ tsd = TypeScriptParser_resetDetectionState(TypeScriptParserNew, 0, "TOP_LEVEL")
    /\ tsTrees = <<>>
    /\ pyd = "none"
    /\ creationInfo = <<>>
    /\ nodeInfo = <<>>
    /\ psCommentBeforeFunction = TRUE
    /\ psVocabulary = {"CLASSES", "FUNCTIONS", "FUNCTION_DECLARATION", "FUNCTION_BODY",
                       "ARGUMENT", "ATTRIBUTES", "REFERENCES", "FILLER", "STATEMENTS_FILLER",
                       "COMMENT_SINGLELINE", "COMMENT_MULTILINE"}
    /\ psStatus = "new"
    /\ psError = "none"
    /\ sourceLines = <<>>
    /\ sourceTokens = <<>>
    /\ positionMap = <<>>
    /\ nodes = <<>>
    /\ frame = NoFrame
    /\ pending = <<>>
    /\ ftMode = "none"
    /\ ftExclude = FALSE
    /\ ftTokens = <<>>
    /\ ftThrew = FALSE
    /\ ftReplace = NoReplace

\* parse(codeLines) of the TypeScriptParser up to the loop of
\* parseNonTerminal(TOP_LEVEL, ...): the TypeScriptTokenizer is fed, preparse
\* does nothing, and the detection state is reset.
TSTopParse ==
    /\ psStatus = "new"
    /\ \E codeLines \in TSSources :
          /\ sourceLines' = codeLines
          /\ IF ParseRejectsEmpty(codeLines)
             THEN /\ PSThrow("CodeParsingError")
                  /\ UNCHANGED <<sourceTokens, positionMap, tsd, creationInfo, nodeInfo>>
             ELSE \E lexed \in {TSParseTokens(ParseFedChars(codeLines, 1))} :
                     /\ sourceTokens' = lexed.tokens
                     /\ positionMap' = PSPositionsFrom(codeLines, 0)
                     /\ IF lexed.threw
                        THEN /\ PSThrow("Error")
                             /\ UNCHANGED <<tsd, creationInfo, nodeInfo>>
                        ELSE /\ nodes' = <<Node("TopLevel", getMaxRange(codeLines), FALSE)>>
                             /\ frame' = Frame("TOP_LEVEL", 1,
                                               TokenRange(0, Len(lexed.tokens)), 0)
                             /\ pending' = <<>>
                             /\ psStatus' = "parsing"
                             /\ psError' = "none"
                             /\ tsd' = TypeScriptParser_resetDetectionState(tsd, 0, "TOP_LEVEL")
                             /\ creationInfo' = <<>>
                             /\ nodeInfo' = <<NoInfo>>
    /\ UNCHANGED <<psCommentBeforeFunction, psVocabulary, ftMode, ftExclude, ftTokens,
                   ftThrew, ftReplace, tsTrees, pyd>>

\* One iteration of the loop of parseNonTerminal, lines 164-173, with the
\* detectors of the TypeScriptParser for every non-terminal.
TSTopDetect ==
    /\ psStatus = "parsing"
    /\ ~frame.concluded
    /\ frame.currentTokIndex < frame.endTok
    /\ \E a \in {TypeScriptParser_detectSymbol(tsd, frame.nonTerminal,
                    sourceTokens[frame.currentTokIndex + 1], frame.currentTokIndex)} :
          /\ tsd' = a.d
          /\ IF a.threw THEN PSThrow(a.error) /\ UNCHANGED creationInfo
             ELSE \E r \in {updateTokenStreamState(
                              [frame EXCEPT !.tokenBuffer = Append(@, frame.currentTokIndex)],
                              a.dir)} :
                     IF r.threw THEN PSThrow(r.error) /\ UNCHANGED creationInfo
                     ELSE /\ frame' = [r.f EXCEPT !.currentTokIndex = @ + 1]
                          /\ creationInfo' = PYPushed(creationInfo, frame, r.f, a)
                          /\ UNCHANGED <<psStatus, psError, nodes, pending>>
    /\ UNCHANGED <<psCommentBeforeFunction, psVocabulary, sourceLines, sourceTokens, positionMap,
                   ftMode, ftExclude, ftTokens, ftThrew, ftReplace, tsTrees, pyd, nodeInfo>>

\* The concluding call, the check for non-parsed tokens and the validation,
\* lines 175-201, with the detectors of the TypeScriptParser for every
\* non-terminal.
TSTopConclude ==
    /\ psStatus = "parsing"
    /\ ~frame.concluded
    /\ frame.currentTokIndex >= frame.endTok
    /\ \E a \in {TypeScriptParser_detectSymbol(tsd, frame.nonTerminal, NullSourceToken,
                                               frame.currentTokIndex)} :
          /\ tsd' = a.d
          /\ IF a.threw THEN PSThrow(a.error) /\ UNCHANGED creationInfo
             ELSE \E r \in {updateTokenStreamState(frame, a.dir)} :
                     IF r.threw THEN PSThrow(r.error) /\ UNCHANGED creationInfo
                     ELSE IF r.f.parsedEndTokIndex # frame.endTok
                     THEN PSThrow("CodeParsingError") /\ UNCHANGED creationInfo
                     ELSE IF ~validateParsingState(frame.nonTerminal, r.f.state)
                     THEN PSThrow("CodeParserImplError") /\ UNCHANGED creationInfo
                     ELSE /\ frame' = [r.f EXCEPT !.concluded = TRUE]
                          /\ creationInfo' = PYPushed(creationInfo, frame, r.f, a)
                          /\ UNCHANGED <<psStatus, psError, nodes, pending>>
    /\ UNCHANGED <<psCommentBeforeFunction, psVocabulary, sourceLines, sourceTokens, positionMap,
                   ftMode, ftExclude, ftTokens, ftThrew, ftReplace, tsTrees, pyd, nodeInfo>>

\* One iteration of the loop of lines 205-207: resolveIntoNode on the next
\* symbol with the createXNode methods of the TypeScriptParser. Every symbol
\* of its detectors that becomes a node carries a nodeCreationInformation;
\* createClassesNode and createFunctionsNode override the inner range.
TSTopResolve ==
    /\ psStatus = "parsing"
    /\ frame.concluded
    /\ Len(frame.childNodes) < Len(frame.state)
    /\ LET i == Len(frame.childNodes) + 1
           detectedType == frame.state[i]
           detectedRange == frame.symbolRange[i]
           info == creationInfo[i]
           kind == NodeKindOf(detectedType)
       IN IF ~resolveDereferences(sourceTokens, detectedRange)
          THEN PSThrow("TypeError") /\ UNCHANGED nodeInfo
          ELSE IF kind = "null"
          THEN /\ frame' = [frame EXCEPT !.childNodes = Append(@, 0)]
               /\ UNCHANGED <<psStatus, psError, nodes, pending, nodeInfo>>
          ELSE \E range \in {resolveRange(sourceTokens, positionMap, detectedRange)} :
                  IF /\ kind \in {"Classes", "Functions"}
                     /\ ~contains(range, info.innerRange)
                  THEN PSThrow("Error") /\ UNCHANGED nodeInfo
                  ELSE /\ nodes' = Append(nodes,
                              [Node(kind, range, detectedType = "COMMENT_MULTILINE")
                                  EXCEPT !.innerRangeOverride = info.innerRange])
                       /\ nodeInfo' = Append(nodeInfo, info)
                       /\ frame' = [frame EXCEPT !.childNodes = Append(@, Len(nodes) + 1)]
                       /\ UNCHANGED <<psStatus, psError, pending>>
    /\ UNCHANGED <<psCommentBeforeFunction, psVocabulary, sourceLines, sourceTokens, positionMap,
                   ftMode, ftExclude, ftTokens, ftThrew, ftReplace, tsVars, pyd, creationInfo>>

\* Lines 211-306 and line 154 of the parseNonTerminal call that starts.
TSTopAttach ==
    /\ TSAttach
    /\ creationInfo' = <<>>
    /\ nodeInfo' = nodeInfo \o [k \in 1..(Len(nodes') - Len(nodeInfo)) |-> NoInfo]
    /\ UNCHANGED pyd

InitTypeScriptTop == TSTopInit /\ EMIdle /\ BMIdle /\ TKIdle
NextTypeScriptTop ==
    \/ TSTopParse /\ UNCHANGED <<emVars, bmVars, tkVars>>
    \/ TSTopDetect /\ UNCHANGED <<emVars, bmVars, tkVars>>
    \/ TSTopConclude /\ UNCHANGED <<emVars, bmVars, tkVars>>
    \/ TSTopResolve /\ UNCHANGED <<emVars, bmVars, tkVars>>
    \/ TSTopAttach /\ UNCHANGED <<emVars, bmVars, tkVars>>
SpecTypeScriptTop == InitTypeScriptTop /\ [][NextTypeScriptTop]_vars

\* ------------------------------------------------------------------------
\* Properties of the stream matchers
\* ------------------------------------------------------------------------

\* pat occurs at the end of fed.
EndsWithPattern(fed, pat) ==
    /\ Len(pat) <= Len(fed)
    /\ \A i \in 1..Len(pat) : fed[Len(fed) - Len(pat) + i] = pat[i]

\* Every pattern is non-empty and no pattern ends with another one.
SuffixFreeNonEmpty(exprs) ==
    /\ \A k \in 1..Len(exprs) : Len(exprs[k]) > 0
    /\ \A i, j \in 1..Len(exprs) : i # j => ~EndsWithPattern(exprs[i], exprs[j])

\* C8: for a matcher built from non-empty, pairwise suffix-free patterns,
\* after every next(sym) the call did not throw, and it returned key k
\* exactly when the symbols fed since construction or the last reset() end
\* with pattern k (null when they end with no pattern).
C8_EmitsExactlyOnCompletion ==
    (emState = "ok" /\ SuffixFreeNonEmpty(emExprs) /\ emFed # <<>>) =>
        /\ ~emThrew
        /\ \A k \in 1..Len(emExprs) :
              (emRet = k) <=> EndsWithPattern(emFed, emExprs[k])
        /\ (emRet = 0) <=> ~ \E k \in 1..Len(emExprs) :
                                EndsWithPattern(emFed, emExprs[k])

\* C8 witness: overlapping occurrences of the pattern 7,7 in the stream
\* 7,7,7, the second of them just emitted, beside a second pattern.
C8_Witness ==
    /\ emKind = "ExpressionMatcher"
    /\ emState = "ok"
    /\ Len(emExprs) = 2
    /\ emFed = <<7, 7, 7>>
    /\ emRet # 0
    /\ emExprs[emRet] = <<7, 7>>

\* Some pattern is empty, two keys carry the same pattern, or one pattern
\* is a suffix of another.
BadExpressions(exprs) ==
    \/ \E k \in 1..Len(exprs) : Len(exprs[k]) = 0
    \/ \E i, j \in 1..Len(exprs) : i # j /\ exprs[i] = exprs[j]
    \/ \E i, j \in 1..Len(exprs) : i # j /\ EndsWithPattern(exprs[i], exprs[j])

\* C9: once the constructor has run, it has thrown if some pattern is empty,
\* duplicated or a suffix of another, and it has succeeded if the record is
\* non-empty and its patterns are non-empty and pairwise suffix-free.
C9_ConstructionValidates ==
    (emState # "new") =>
        /\ BadExpressions(emExprs) => emState = "threw"
        /\ (Len(emExprs) > 0 /\ ~BadExpressions(emExprs)) => emState = "ok"

\* C9 witness: the constructor threw on a record whose second pattern has
\* the first as a proper suffix (the shape of {a: "bar", b: "foobar"}).
C9_Witness ==
    /\ emState = "threw"
    /\ Len(emExprs) = 2
    /\ Len(emExprs[1]) = 1
    /\ Len(emExprs[2]) = 2
    /\ emExprs[2][2] = emExprs[1][1]
    /\ emExprs[2][1] # emExprs[1][1]

\* No character is configured both as an opening and as a closing one.
BMSidesDisjoint == BMOpeningChars(bmPairs) \cap BMClosingChars(bmPairs) = {}

BMNextCalled == bmState = "ok" /\ bmCalls' = bmCalls + 1

\* The cases in which next(ch) has to throw: ch is a closing character and
\* the stack is empty, ch is a closing character that is not the partner of
\* the opening character on top of the stack, ch is no configured character.
BMMustThrow(ch) ==
    \/ ch \in BMClosingChars(bmPairs) /\ Len(bmStack) = 0
    \/ /\ ch \in BMClosingChars(bmPairs)
       /\ Len(bmStack) > 0
       /\ ch # bmO2C[bmStack[Len(bmStack)]]
    \/ ch \notin BMOpeningChars(bmPairs) \cup BMClosingChars(bmPairs)

\* C11: every next(ch) on a constructed matcher throws, leaving the stack
\* as it was, when ch is a closing character and no opening character is
\* unmatched, when ch is a closing character that does not pair with the
\* most recent unmatched opening character, and when ch is not one of the
\* configured opening or closing characters.
C11_NextThrows ==
    [][(BMNextCalled /\ BMMustThrow(bmLastCh')) =>
          (bmThrew' /\ bmStack' = bmStack)]_vars

\* Every opening and closing string is a single character and all of them
\* are pairwise distinct.
BMAllDistinct(braces) ==
    /\ \A k \in 1..Len(braces) :
          Len(braces[k].opening) = 1 /\ Len(braces[k].closing) = 1
    /\ \A j, k \in 1..Len(braces) :
          /\ j # k => braces[j].opening # braces[k].opening
          /\ j # k => braces[j].closing # braces[k].closing
          /\ braces[j].opening # braces[k].closing

\* C12: new BracesMatcher(braces) throws unless every opening and closing
\* string of braces is a single character and all of them are pairwise
\* distinct (no opening repeated, no closing repeated, none on both sides).
C12_ConstructorRejectsDuplicates ==
    (bmState # "new" /\ ~BMAllDistinct(bmPairs)) => bmState = "threw"

\* ------------------------------------------------------------------------
\* Properties of the lexical tokenizer
\* ------------------------------------------------------------------------

RECURSIVE ConcatContents(_)
ConcatContents(toks) ==
    IF toks = <<>> THEN <<>>
    ELSE toks[1].stringContents \o ConcatContents(Tail(toks))

\* Each token starts where the previous one ended, the first one at 0, and
\* holds as many characters as its range spans.
TokensTile(toks) ==
    \A i \in 1..Len(toks) :
        /\ toks[i].start = IF i = 1 THEN 0 ELSE toks[i - 1].end
        /\ toks[i].end - toks[i].start = Len(toks[i].stringContents)

\* The source with every physical line terminated by one newline.
RECURSIVE LinesTerminated(_)
LinesTerminated(codeLines) ==
    IF codeLines = <<>> THEN <<>>
    ELSE codeLines[1] \o <<"\n">> \o LinesTerminated(Tail(codeLines))

\* C2: whatever directives the lexer returns, the tokens tile the fed
\* characters: each starts where the previous one ended, the first at 0, and
\* before the end the tokens followed by the pending buffer spell the fed
\* sequence; after
\* next(null) the last token ends at the number of characters fed and the
\* token contents alone spell the fed sequence, which under parse() is the
\* source with each line terminated by one newline.
C2_TokensTileFedCharacters ==
    /\ TokensTile(tokenString)
    /\ ~ended => ConcatContents(tokenString) \o stringBuffer = tkFed
    /\ ended =>
          /\ ConcatContents(tokenString) = tkFed
          /\ tokenString # <<>> => tokenString[Len(tokenString)].end = Len(tkFed)
          /\ tokenString = <<>> => tkFed = <<>>
          /\ tkMode = "parse" => ConcatContents(tokenString) = LinesTerminated(tkLines)

\* C2 witness: parse() has fed the two lines "a" and "=" to a
\* TypeScriptTokenizer and ended it; four tokens came out.
C2_Witness ==
    /\ tkMode = "parse"
    /\ tkLexer = "ts"
    /\ tkLines = << <<"a">>, <<"=">> >>
    /\ ended
    /\ ~tkThrew
    /\ Len(tokenString) = 4

\* C7: once ended, every further next call throws and leaves the token list
\* and the ended flag as they were; right after reset() every field of the
\* tokenizer and of its lexer, the delimiter matcher included, has its
\* constructor value; and a TypeScriptTokenizer always holds the tokens a
\* newly constructed one holds after the characters fed since the last
\* reset().
C7_EndedUntilResetThenFresh ==
    /\ [](tkLastCall = "reset" => (TKFields = ATInitial /\ tsLex = TSInitial))
    /\ [](tkLexer = "ts" => tokenString = TSFreshTokens(tkFed, ended))
    /\ [][(ended /\ tkLastCall' # "reset") =>
             (tkThrew' /\ tokenString' = tokenString /\ ended')]_vars

\* C7 witness: a TypeScriptTokenizer was reset while its lexer was mid-token,
\* was then fed and ended again with two tokens or more, and a next call
\* after that end has thrown.
C7_Witness ==
    /\ tkLexer = "ts"
    /\ tkResets = 1
    /\ tkDirtyReset
    /\ ended
    /\ tkThrew
    /\ tkLastCall = "next"
    /\ Len(tokenString) >= 2

\* ------------------------------------------------------------------------
\* Properties of the parsed tree and of the faithful token list
\* ------------------------------------------------------------------------

\* parse() has returned its AbstractSyntaxTree.
Parsed == psStatus \in {"parsed", "flattened"}

\* Node n is in the tree under the root (node 1).
RECURSIVE Attached(_)
Attached(n) ==
    n = 1 \/ (nodes[n].parent # 0 /\ Attached(nodes[n].parent))

TreeNodes == { n \in 1..Len(nodes) : Attached(n) }

KindsOfChildren(n) == [i \in 1..Len(nodes[n].children) |-> nodes[nodes[n].children[i]].kind]

RanksInOrder(n) ==
    \A i \in 1..Len(nodes[n].children) : nodes[nodes[n].children[i]].siblingRank = i - 1

\* A precedes B: A.range.end <= B.range.start.
Precedes(a, b) ==
    compare(rangeToEndIndex(nodes[a].range), rangeToStartIndex(nodes[b].range)) # 1

\* flattenFaithfully has returned a token list.
Flattened == psStatus = "flattened" /\ ~ftThrew

\* C1 as stated: the stringContents of the tokens flattenFaithfully returns,
\* concatenated in order, are the source S (its lines joined by "\n") exactly.
C1_ConcatIsSourceExactly ==
    Flattened => ConcatContents(ftTokens) = JoinLines(sourceLines, 1)

\* C1, amended: whenever flattenFaithfully returns a token list, in every mode
\* and for both values of excludeInnerRangeIfPossible, the stringContents
\* concatenated in order are S with one "\n" after its last line, that is
\* every line of the source followed by "\n", and nothing else.
C1_ConcatIsSourceWithFinalNewline ==
    Flattened => ConcatContents(ftTokens) = ParseFedChars(sourceLines, 1)

C1_Witness ==
    /\ Flattened
    /\ ftMode = "EVERYTHING"
    /\ ftExclude
    /\ Len(ftTokens) >= 3
    /\ \E i \in 1..Len(ftTokens) : ftTokens[i].tokenType = "FUNCTION_DEFINITION"
    /\ \E i \in 1..Len(ftTokens) : ftTokens[i].tokenType = "OTHERS"

\* C3: after a successful parse the range of every node of the tree other
\* than the root is contained, non-strictly, in the range of its parent.
C3_ChildRangeWithinParent ==
    Parsed => \A n \in TreeNodes \ {1} : contains(nodes[nodes[n].parent].range, nodes[n].range)

C3_Witness ==
    /\ Parsed
    /\ \E g \in TreeNodes :
          /\ nodes[g].kind = "FunctionGroups"
          /\ KindsOfChildren(g) = <<"Comments", "Functions">>
          /\ nodes[g].range # nodes[nodes[g].children[1]].range
          /\ nodes[g].range # nodes[nodes[g].children[2]].range

\* C4 as stated: after a successful parse any two consecutive children A, B
\* of any node, FunctionGroups included, have A.range.end <= B.range.start.
C4_SiblingsNeverOverlap ==
    Parsed => \A p \in TreeNodes : \A i \in 1..(Len(nodes[p].children) - 1) :
                 Precedes(nodes[p].children[i], nodes[p].children[i + 1])

\* C4, amended: after a successful parse any two consecutive children A, B of
\* any node have A.range.end <= B.range.start, except the children of a
\* FunctionGroups that are a Functions followed by the doc comment lifted out
\* of its body: that Comments node lies inside the range of the Functions.
C4_SiblingsOrderedButLiftedComment ==
    Parsed => \A p \in TreeNodes : \A i \in 1..(Len(nodes[p].children) - 1) :
                 LET a == nodes[p].children[i]
                     b == nodes[p].children[i + 1]
                 IN IF nodes[p].kind = "FunctionGroups" /\ nodes[a].kind = "Functions"
                    THEN nodes[b].kind = "Comments" /\ contains(nodes[a].range, nodes[b].range)
                    ELSE Precedes(a, b)

C4_Witness ==
    /\ Parsed
    /\ \E p \in TreeNodes :
          /\ nodes[p].kind # "FunctionGroups"
          /\ Len(nodes[p].children) >= 2
          /\ Precedes(nodes[p].children[1], nodes[p].children[2])
          /\ nodes[nodes[p].children[1]].range # nodes[nodes[p].children[2]].range

\* C5 as stated: after a successful parse every FunctionGroups has exactly
\* one child, a Functions, or exactly two, a Comments of sibling rank 0 and
\* then a Functions of sibling rank 1.
C5_GroupIsFunctionOrCommentFunction ==
    Parsed => \A g \in TreeNodes :
                 nodes[g].kind = "FunctionGroups" =>
                     /\ KindsOfChildren(g) \in {<<"Functions">>, <<"Comments", "Functions">>}
                     /\ RanksInOrder(g)

\* C5, amended: after a successful parse every FunctionGroups has exactly one
\* child, a Functions, or exactly two: a Comments of sibling rank 0 and then
\* a Functions of rank 1 (only when comments come before functions), or a
\* Functions of rank 0 and then a Comments of rank 1, the doc comment lifted
\* out of the function body (only when comments come inside functions).
C5_GroupShapes ==
    Parsed => \A g \in TreeNodes :
                 nodes[g].kind = "FunctionGroups" =>
                     /\ \/ KindsOfChildren(g) = <<"Functions">>
                        \/ KindsOfChildren(g) = <<"Comments", "Functions">>
                             /\ psCommentBeforeFunction
                        \/ KindsOfChildren(g) = <<"Functions", "Comments">>
                             /\ ~psCommentBeforeFunction
                     /\ RanksInOrder(g)

C5_Witness ==
    /\ Parsed
    /\ ~psCommentBeforeFunction
    /\ \E g \in TreeNodes :
          /\ nodes[g].kind = "FunctionGroups"
          /\ KindsOfChildren(g) = <<"Functions", "Comments">>
          /\ nodes[nodes[g].children[2]].siblingRank = 1

\* C6: after a successful parse every References node of the tree is a child
\* of the TopLevel root, every Attributes node a child of a Classes node and
\* every Argument node a child of a FunctionDeclaration node.
C6_KindsUnderTheirParents ==
    Parsed => \A n \in TreeNodes \ {1} :
                 /\ nodes[n].kind = "References" => nodes[n].parent = 1
                 /\ nodes[n].kind = "Attributes" => nodes[nodes[n].parent].kind = "Classes"
                 /\ nodes[n].kind = "Argument"
                        => nodes[nodes[n].parent].kind = "FunctionDeclaration"

C6_Witness ==
    /\ Parsed
    /\ nodes[1].kind = "TopLevel"
    /\ \E n \in TreeNodes : nodes[n].kind = "Attributes"
                            /\ nodes[nodes[n].parent].kind = "Classes"

\* The inner ranges of the tree are resolved as getTexts() demands of the
\* parser ("the maximal inner range so that when taken away, the class /
\* function is still a valid class / function with no body"): every Classes
\* and Functions node has its inner range overridden, with start not after
\* end and a header before it; a class has its children inside its inner
\* range; a function whose doc comment was lifted into its FunctionGroups has
\* nothing after its inner range (the block ends where the function ends).
InnerRangesResolved ==
    \A n \in TreeNodes :
       LET inner == nodes[n].innerRangeOverride
       IN /\ nodes[n].kind \in {"Classes", "Functions"} =>
                /\ inner # NullRange
                /\ compare(rangeToStartIndex(inner), rangeToEndIndex(inner)) # 1
                /\ compare(rangeToStartIndex(nodes[n].range), rangeToStartIndex(inner)) = -1
          /\ nodes[n].kind = "Classes" =>
                \A i \in 1..Len(nodes[n].children) :
                   contains(inner, nodes[nodes[n].children[i]].range)
          /\ (nodes[n].kind = "FunctionGroups"
                /\ KindsOfChildren(n) = <<"Functions", "Comments">>) =>
                rangeToEndIndex(nodes[nodes[n].children[1]].innerRangeOverride)
                   = rangeToEndIndex(nodes[nodes[n].children[1]].range)

EmittedAsComment(n) ==
    \E i \in 1..Len(ftTokens) :
       ftTokens[i].tokenType = "COMMENTS" /\ ftTokens[i].originalNode = n

\* Node f was emitted whole: one FUNCTION token spans its range.
EmittedWhole(f) ==
    \E i \in 1..Len(ftTokens) :
       /\ ftTokens[i].tokenType = "FUNCTION"
       /\ ftTokens[i].originalNode = f
       /\ ftTokens[i].range = nodes[f].range

\* The Comments children of FunctionGroups nodes, each with the Functions
\* node of its group.
GroupComments ==
    { <<c, f>> \in TreeNodes \X TreeNodes :
         /\ nodes[c].kind = "Comments"
         /\ nodes[f].kind = "Functions"
         /\ nodes[c].parent = nodes[f].parent
         /\ nodes[nodes[c].parent].kind = "FunctionGroups" }

\* C14 as stated: in mode FUNCTIONS_AND_CLASSES the Comments child of
\* sibling rank 0 of a FunctionGroups is not emitted as a COMMENTS token
\* when excludeInnerRangeIfPossible is false and the Functions node was
\* emitted whole, and is emitted when the Functions node was not emitted
\* whole.
C14_RankZeroCommentSkipped ==
    (Flattened /\ ftMode = "FUNCTIONS_AND_CLASSES") =>
       \A p \in GroupComments :
          nodes[p[1]].siblingRank = 0 =>
             /\ (~ftExclude /\ EmittedWhole(p[2])) => ~EmittedAsComment(p[1])
             /\ ~EmittedWhole(p[2]) => EmittedAsComment(p[1])

\* C14 amended: in mode FUNCTIONS_AND_CLASSES a Comments child of a
\* FunctionGroups is left out of the returned tokens exactly when
\* excludeInnerRangeIfPossible is false and its sibling rank is greater
\* than 0 (the doc comment lifted out of the body of the function, which
\* the whole FUNCTION token covers); the child of sibling rank 0 is always
\* emitted as a COMMENTS token, and with excludeInnerRangeIfPossible true
\* every one is.
C14_LiftedCommentSkipped ==
    (Flattened /\ ftMode = "FUNCTIONS_AND_CLASSES") =>
       \A p \in GroupComments :
          /\ (~ftExclude /\ nodes[p[1]].siblingRank > 0) =>
                (~EmittedAsComment(p[1]) /\ EmittedWhole(p[2]))
          /\ (ftExclude \/ nodes[p[1]].siblingRank = 0) => EmittedAsComment(p[1])

\* C14 witness: with excludeInnerRangeIfPossible false a function was
\* emitted whole and the doc comment lifted out of its body, of sibling rank
\* 1 in the FunctionGroups, has no token.
C14_Witness ==
    /\ Flattened
    /\ ftMode = "FUNCTIONS_AND_CLASSES"
    /\ ~ftExclude
    /\ \E p \in GroupComments :
          /\ nodes[p[1]].siblingRank = 1
          /\ EmittedWhole(p[2])
          /\ ~EmittedAsComment(p[1])

\* tokenizeReplaceNode has returned a token list.
Replaced == psStatus = "replaced" /\ ~ftThrew

\* Node n is node m or lies under it.
RECURSIVE InSubtree(_, _)
InSubtree(n, m) ==
    n = m \/ (nodes[n].parent # 0 /\ InSubtree(nodes[n].parent, m))

\* The source text with the range of node n replaced by text.
SourceWithReplaced(n, text) ==
    LET max == getMaxRange(sourceLines)
        before == indexesToRange(rangeToStartIndex(max), rangeToStartIndex(nodes[n].range))
        after == indexesToRange(rangeToEndIndex(nodes[n].range), rangeToEndIndex(max))
    IN getSourceTextFromRange(sourceLines, before).text \o text
          \o getSourceTextFromRange(sourceLines, after).text

\* C15: the token list tokenizeReplaceNode(tree, node, s) returns holds
\* exactly one token with text s and no token of the subtree of node, and
\* for the faithful tokenizer its concatenation is the source text with the
\* range of node replaced by s (so the original text of node is not emitted).
C15_NodeReplaced ==
    Replaced =>
       /\ Cardinality({ i \in 1..Len(ftTokens) :
                           ftTokens[i].stringContents = ftReplace.text }) = 1
       /\ \A i \in 1..Len(ftTokens) :
             ftTokens[i].originalNode # 0 =>
                ~InSubtree(ftTokens[i].originalNode, ftReplace.node)
       /\ ConcatContents(ftTokens) = SourceWithReplaced(ftReplace.node, ftReplace.text)

\* C28: the constructor accepts the expressions alpha = [7, 8, 9, 10],
\* beta = [8, 9, 10], gamma = [9, 10] of the advanced example, so that the
\* stream of the example can be fed to the matcher.
C28_AdvancedExampleConstructs ==
    emExprs = EMAdvancedExample /\ emState # "new" => emState = "ok"

\* ------------------------------------------------------------------------
\* Properties of parseNonTerminal
\* ------------------------------------------------------------------------

\* The recorded symbol ranges of a parseNonTerminal call tile its token range.
Tiles(f) ==
    LET r == f.symbolRange
    IN /\ Len(r) = Len(f.state)
       /\ r = <<>> => f.startTok = f.endTok
       /\ r # <<>> => r[1].startTok = f.startTok /\ r[Len(r)].endTok = f.endTok
       /\ \A i \in 1..(Len(r) - 1) : r[i].endTok = r[i + 1].startTok
       /\ \A i \in 1..Len(r) : r[i].startTok <= r[i].endTok

\* The detector is about to get its end-of-range call.
AtEndOfRange ==
    psStatus = "parsing" /\ ~frame.concluded /\ frame.currentTokIndex >= frame.endTok

\* What the end-of-range step does with the answer dir of the detector.
EndOfRangeStep(dir) ==
    LET r == updateTokenStreamState(frame, dir)
    IN IF r.threw
       THEN psStatus' = "threw" /\ psError' = r.error
       ELSE IF r.f.tokenBuffer # <<>> \/ ~Tiles(r.f)
       THEN /\ psStatus' = "threw"
            /\ psError' = "CodeParsingError"
            /\ frame.childNodes = <<>>
       ELSE \/ psStatus' = "threw" /\ psError' = "CodeParserImplError"
            \/ psStatus' = "parsing" /\ frame' = [r.f EXCEPT !.concluded = TRUE]

\* C18: a parseNonTerminal call over the token range [s, e) fails with
\* CodeParsingError or its recorded symbol ranges tile [s, e): the first starts
\* at s, each starts where the one before ends, the last ends at e. It fails
\* with CodeParsingError whenever the end-of-range call of the detector leaves
\* tokens in the buffer, whatever the validation of the production would say
\* and before any symbol is resolved into a node.
C18_TilesOrFails ==
    /\ [](psStatus = "parsing" /\ frame.concluded => Tiles(frame))
    /\ [][AtEndOfRange => \E dir \in PSDirectives(psVocabulary, frame) : EndOfRangeStep(dir)]_vars

\* A call that passed the check with two symbols, the second of more than one token.
C18_Witness ==
    /\ psStatus = "parsing"
    /\ frame.concluded
    /\ Len(frame.state) = 2
    /\ frame.symbolRange[1].endTok > frame.symbolRange[1].startTok

\* The running call in its detection loop or at its end-of-range call, with the
\* token buffer the detector's answer is applied to.
DetectionFrames ==
    IF psStatus # "parsing" \/ frame.concluded THEN {}
    ELSE IF frame.currentTokIndex < frame.endTok
    THEN {[frame EXCEPT !.tokenBuffer = Append(@, frame.currentTokIndex)]}
    ELSE {frame}

\* The directives the claim lists, for a buffer of len tokens.
Malformed(dir, len) ==
    LET hasSecond == dir.secondSymbolType # "undefined"
        ssl == dir.secondSymbolLen
        ebl == dir.firstTwoSymbolsEndBufferLen
    IN \/ dir.symbolType = "TOP_LEVEL"
       \/ dir.secondSymbolType = "TOP_LEVEL"
       \/ hasSecond /\ len < 2
       \/ ssl # -1 /\ (ssl < 1 \/ ssl >= len)
       \/ ebl # -1 /\ (~hasSecond \/ ssl = -1)
       \/ ebl # -1 /\ (ebl < 1 \/ ebl + ssl >= len)

\* Directives with firstTwoSymbolsEndBufferLen set and secondSymbolLen not.
EndBufferOnlyDirectives(vocabulary) ==
    { SymbolAdditionDirective(ty, NullTokenRange, "FILLER", -1, 1) : ty \in vocabulary }

\* The pieces an accepted directive cut the buffer of f into are not empty:
\* the ranges of the symbols it recorded and the tokens it left in the buffer.
NonEmptyPieces(f, dir, g) ==
    /\ \A i \in (Len(f.symbolRange) + 1)..Len(g.symbolRange) :
          g.symbolRange[i].startTok < g.symbolRange[i].endTok
    /\ dir.secondSymbolType = "undefined" \/ dir.firstTwoSymbolsEndBufferLen # -1
          => g.tokenBuffer # <<>>

\* C21: updateTokenStreamState throws CodeParserImplError on every directive
\* that names TOP_LEVEL as symbol or secondSymbol, sets secondSymbol on a buffer
\* of fewer than 2 tokens, sets secondSymbolLen below 1 or not below the buffer
\* length, sets firstTwoSymbolsEndBufferLen without secondSymbol and
\* secondSymbolLen, or sets it below 1 or with firstTwoSymbolsEndBufferLen +
\* secondSymbolLen not below the buffer length; a directive that splits the
\* buffer and is accepted yields only pieces that are not empty.
C21_MalformedDirectivesThrow ==
    \A f \in DetectionFrames :
       \A dir \in (PSDirectives(psVocabulary, f) \cup EndBufferOnlyDirectives(psVocabulary))
                    \ {NullSAD} :
          \E r \in {updateTokenStreamState(f, dir)} :
             /\ Malformed(dir, Len(f.tokenBuffer))
                   => r.threw /\ r.error = "CodeParserImplError"
             /\ ~r.threw /\ (dir.secondSymbolType # "undefined" \/ dir.secondSymbolLen # -1)
                   => NonEmptyPieces(f, dir, r.f)

\* A buffer of three tokens on which a directive is accepted that cuts it into
\* two symbols and a retained rest, and on which a malformed one is offered.
C21_Witness ==
    \E f \in DetectionFrames :
       /\ Len(f.tokenBuffer) = 3
       /\ \E dir \in PSDirectives(psVocabulary, f) :
             /\ dir.firstTwoSymbolsEndBufferLen = 1
             /\ ~updateTokenStreamState(f, dir).threw
       /\ \E dir \in PSDirectives(psVocabulary, f) \ {NullSAD} :
             Malformed(dir, Len(f.tokenBuffer))

\* One token range inside another.
WithinTokens(inner, outer) ==
    outer.startTok <= inner.startTok /\ inner.endTok <= outer.endTok

\* The parse ranges of the recorded symbols of f: inside the symbol's range for
\* a non-terminal, null for a terminal.
ParseRangesCorrect(f) ==
    \A i \in 1..Len(f.state) :
       IF isTerminal(f.state[i]) THEN f.ntParseRange[i] = NullTokenRange
       ELSE /\ f.ntParseRange[i] # NullTokenRange
            /\ WithinTokens(f.ntParseRange[i], f.symbolRange[i])

\* The first non-terminal symbol of the state of f, 0 when there is none.
FirstNonTerminal(f) ==
    LET found == { i \in 1..Len(f.state) : ~isTerminal(f.state[i]) }
    IN IF found = {} THEN 0 ELSE CHOOSE i \in found : \A j \in found : i <= j

\* The step that attaches the symbols of the running call and starts the
\* sub-parse of its first non-terminal symbol.
StartsSubParse ==
    /\ psStatus = "parsing"
    /\ frame.concluded
    /\ Len(frame.childNodes) = Len(frame.state)
    /\ FirstNonTerminal(frame) # 0
    /\ psStatus' = "parsing"

\* C22: every symbol an accepted directive records has, if it is a
\* non-terminal, a parse range (its own range when the detector gave none)
\* inside its symbol range and, if it is a terminal, none; a directive that
\* breaks this throws CodeParserImplError; and the sub-parse of a symbol runs
\* on a token range inside the range of that symbol.
C22_ParseRangeWithinSymbol ==
    /\ [](\A f \in DetectionFrames :
            \A dir \in PSDirectives(psVocabulary, f) \ {NullSAD} :
               \E r \in {updateTokenStreamState(f, dir)} :
                  IF r.threw THEN r.error = "CodeParserImplError"
                  ELSE ParseRangesCorrect(r.f))
    /\ [](psStatus = "parsing" => ParseRangesCorrect(frame))
    /\ [][StartsSubParse =>
             WithinTokens(TokenRange(frame'.startTok, frame'.endTok),
                          frame.symbolRange[FirstNonTerminal(frame)])]_vars

\* The sub-parse of a CLASSES symbol of two tokens that runs on the first of
\* them only.
C22_Witness ==
    /\ psStatus = "parsing"
    /\ frame.concluded
    /\ \E i \in 1..Len(frame.state) :
          /\ frame.state[i] = "CLASSES"
          /\ frame.symbolRange[i].endTok - frame.symbolRange[i].startTok = 2
          /\ frame.ntParseRange[i].endTok = frame.symbolRange[i].endTok - 1

\* The step of lines 219-295 that attaches the resolved symbols of the call.
AttachStep ==
    /\ psStatus = "parsing"
    /\ frame.concluded
    /\ Len(frame.childNodes) = Len(frame.state)
    /\ psStatus' # "threw"

\* Symbol i is a multi-line comment, symbol j a function, and only FILLER
\* symbols lie between them.
CommentRightBefore(i, j) ==
    /\ i < j
    /\ frame.state[i] = "COMMENT_MULTILINE"
    /\ frame.state[j] = "FUNCTIONS"
    /\ \A k \in (i + 1)..(j - 1) : frame.state[k] = "FILLER"

\* What the attach step made of the FUNCTIONS symbol j.
FunctionGrouped(j) ==
    LET fn == frame.childNodes[j]
        gp == nodes'[fn].parent
        before == { i \in 1..Len(frame.state) : CommentRightBefore(i, j) }
    IN /\ gp # 0
       /\ nodes'[gp].kind = "FunctionGroups"
       /\ nodes'[gp].parent = frame.parent
       /\ IF before # {}
          THEN \E i \in before :
                  /\ nodes'[gp].children = <<frame.childNodes[i], fn>>
                  /\ nodes'[gp].range =
                        mergeRanges(<<nodes[frame.childNodes[i]].range, nodes[fn].range>>)
          ELSE nodes'[gp].children = <<fn>>

\* C29: in comment-before-function mode the attach step of a TOP_LEVEL or
\* CLASSES production wraps a multi-line comment and a function into one
\* FunctionGroups, whose range is the merged range of the two, if and only if
\* only FILLER symbols lie between them; otherwise the function gets a
\* FunctionGroups of its own and the comment is attached to the parent.
C29_CommentFunctionPairs ==
    [][AttachStep /\ psCommentBeforeFunction /\ frame.nonTerminal \in {"TOP_LEVEL", "CLASSES"} =>
         \A j \in 1..Len(frame.state) :
            /\ frame.state[j] = "FUNCTIONS" => FunctionGrouped(j)
            /\ (/\ frame.state[j] = "COMMENT_MULTILINE"
                /\ ~ \E f \in 1..Len(frame.state) : CommentRightBefore(j, f))
                  => nodes'[frame.childNodes[j]].parent = frame.parent]_vars

\* C30: in comment-inside-function mode the attach step of a FUNCTION_BODY
\* attaches a multi-line comment to the FunctionGroups of the function if and
\* only if only FILLER symbols come before it in the body; every other
\* comment of the body is attached to the Functions node, so at most one
\* comment is lifted.
C30_FirstCommentLifted ==
    [][AttachStep /\ ~psCommentBeforeFunction /\ frame.nonTerminal = "FUNCTION_BODY" =>
         /\ \A i \in 1..Len(frame.state) :
               frame.state[i] \in {"COMMENT_MULTILINE", "COMMENT_SINGLELINE"} =>
                  nodes'[frame.childNodes[i]].parent =
                     IF /\ frame.state[i] = "COMMENT_MULTILINE"
                        /\ \A k \in 1..(i - 1) : frame.state[k] = "FILLER"
                     THEN nodes[frame.parent].parent
                     ELSE frame.parent
         /\ Len(nodes'[nodes[frame.parent].parent].children)
               <= Len(nodes[nodes[frame.parent].parent].children) + 1]_vars

\* A body whose first multi-line comment was lifted into the FunctionGroups
\* while a later one stayed in the Functions node.
C30_Witness ==
    /\ ~psCommentBeforeFunction
    /\ psStatus = "parsed"
    /\ Len(nodes) >= 6
    /\ nodes[2].kind = "Functions"
    /\ \E c, d \in DOMAIN nodes :
          /\ nodes[c].kind = "Comments" /\ nodes[c].isMultiLine /\ nodes[c].parent = 3
          /\ nodes[d].kind = "Comments" /\ nodes[d].isMultiLine /\ nodes[d].parent = 2

\* The symbols of the right-hand side of a non-terminal.
LegalRHS(nonTerminal) ==
    CASE nonTerminal = "TOP_LEVEL" ->
            {"FILLER", "STATEMENTS_FILLER", "COMMENT_SINGLELINE", "COMMENT_MULTILINE",
             "REFERENCES", "CLASSES", "FUNCTIONS"}
      [] nonTerminal = "CLASSES" ->
            {"FILLER", "STATEMENTS_FILLER", "COMMENT_SINGLELINE", "COMMENT_MULTILINE",
             "ATTRIBUTES", "FUNCTIONS"}
      [] nonTerminal = "FUNCTIONS" ->
            {"FILLER", "STATEMENTS_FILLER", "FUNCTION_DECLARATION", "FUNCTION_BODY"}
      [] nonTerminal = "FUNCTION_DECLARATION" ->
            {"FILLER", "COMMENT_SINGLELINE", "COMMENT_MULTILINE", "ARGUMENT"}
      [] nonTerminal = "FUNCTION_BODY" ->
            {"FILLER", "STATEMENTS_FILLER", "COMMENT_SINGLELINE", "COMMENT_MULTILINE"}

\* The production of the running parseNonTerminal call passed the validation.
Validated == psStatus = "parsing" /\ frame.concluded

\* C19: the symbol list of a non-terminal that passed the validation holds
\* only symbols of the right-hand side of that non-terminal.
C19_OnlyLegalSymbols ==
    Validated => \A i \in 1..Len(frame.state) : frame.state[i] \in LegalRHS(frame.nonTerminal)

\* C20: the symbol list of a FUNCTIONS production that passed the validation
\* has exactly two symbols that are no fillers, FUNCTION_DECLARATION and then
\* FUNCTION_BODY.
C20_ExactlyTwoNonFillers ==
    Validated /\ frame.nonTerminal = "FUNCTIONS" =>
        SelectSeq(frame.state, LAMBDA sym : sym \notin {"FILLER", "STATEMENTS_FILLER"})
            = <<"FUNCTION_DECLARATION", "FUNCTION_BODY">>

\* ------------------------------------------------------------------------
\* Properties of the TypeScriptParser
\* ------------------------------------------------------------------------

\* The tokens of the body of the one function of the source: those between
\* its opening brace and its last closing brace.
FunctionBodyTokens ==
    LET braces(ch) == { i \in 1..Len(sourceTokens) : sourceTokens[i].stringContents = <<ch>> }
    IN { i \in 1..Len(sourceTokens) :
            /\ \E o \in braces("{") : o < i
            /\ \E c \in braces("}") : i < c }

\* The token of a leading doc comment that the parser lifts out of the body.
LiftedDocComment(i) ==
    /\ ~psCommentBeforeFunction
    /\ sourceTokens[i].tokenType = "MULTILINE_COMMENTS_OR_STRINGS"
    /\ \A j \in FunctionBodyTokens : j < i => sourceTokens[j].tokenType = "SPACINGS"

\* C17: after a successful parse, hasFunctionBody() of the Functions node is
\* true if and only if the body of the function holds a token that is neither
\* spacing nor the lifted leading doc comment.
C17_HasFunctionBody ==
    psStatus = "parsed" =>
        (nodes[2].funcBodyNonEmpty <=>
            \E i \in FunctionBodyTokens :
                sourceTokens[i].tokenType # "SPACINGS" /\ ~LiftedDocComment(i))

ChildrenOf(n) == { nodes[n].children[i] : i \in 1..Len(nodes[n].children) }

\* The tree parse() returned for the source.
Returned(codeLines) == sourceLines = codeLines /\ psStatus = "parsed"

\* C23: the tree parse() returns for the class of scenario S1 has a Classes
\* node with an Attributes child whose attributeName is "x" and whose
\* attributeType is "int".
C23_AttributeNameAndType ==
    Returned(PYClassWithMethod) =>
        \E c \in TreeNodes : \E a \in ChildrenOf(c) :
            /\ nodes[c].kind = "Classes"
            /\ nodes[a].kind = "Attributes"
            /\ nodeInfo[a].name = <<"x">>
            /\ nodeInfo[a].type = <<"i", "n", "t">>

\* Node a is an Argument made with this argumentName and argumentType.
IsArgument(a, argumentName, argumentType) ==
    /\ nodes[a].kind = "Argument"
    /\ nodeInfo[a].name = argumentName
    /\ nodeInfo[a].type = argumentType

\* C24: parse() of the class of scenario S1 does not throw, and the tree it
\* returns has a FunctionGroups with a multi-line Comments child of contents
\* "doc" and a Functions child; the Functions has a FunctionDeclaration whose children
\* are exactly two Arguments, "self" of type null and "n" of type "int"; no
\* Comments is a child of the Functions; and hasFunctionBody() is true.
C24_DocumentedMethod ==
    /\ sourceLines = PYClassWithMethod => psStatus # "threw"
    /\ Returned(PYClassWithMethod) =>
        \E g \in TreeNodes : \E c, f \in ChildrenOf(g) : \E decl \in ChildrenOf(f) :
            /\ nodes[g].kind = "FunctionGroups"
            /\ nodes[c].kind = "Comments"
            /\ nodes[c].isMultiLine
            /\ nodeInfo[c].text = <<"d", "o", "c">>
            /\ nodes[f].kind = "Functions"
            /\ nodes[decl].kind = "FunctionDeclaration"
            /\ Len(nodes[decl].children) = 2
            /\ IsArgument(nodes[decl].children[1], <<"s", "e", "l", "f">>, NullString)
            /\ IsArgument(nodes[decl].children[2], <<"n">>, <<"i", "n", "t">>)
            /\ \A k \in ChildrenOf(f) : nodes[k].kind # "Comments"
            /\ nodes[f].funcBodyNonEmpty

\* parse() returned the tree of the class of scenario S1, the method in it.
C24_Witness ==
    /\ Returned(PYClassWithMethod)
    /\ \E f \in TreeNodes : nodes[f].kind = "Functions"

\* The symbols of the top level that are not FILLER, once it is concluded.
TopLevelStatements ==
    SelectSeq(frame.state, LAMBDA symbol : symbol # "FILLER")

\* C26: parse() of the two lines of scenario S4 does not throw, and the top
\* level is concluded as a single STATEMENTS_FILLER symbol.
C26_ContinuedStatementIsOneSymbol ==
    sourceLines = PYContinuedStatement =>
        /\ psStatus # "threw"
        /\ frame.nonTerminal = "TOP_LEVEL" /\ frame.concluded =>
              TopLevelStatements = <<"STATEMENTS_FILLER">>

\* The brackets of the characters from i on balance against the stack of
\* openings: no closing character without its opening one, none left open.
RECURSIVE BracketsBalance(_, _, _)
BracketsBalance(chars, i, stack) ==
    LET maps == BMCtor(BMStandard)
        r == BMNextResult(maps.o2c, maps.c2o, stack, chars[i])
    IN IF i > Len(chars) THEN stack = <<>>
       ELSE IF chars[i] \notin {"(", ")", "[", "]", "{", "}"}
       THEN BracketsBalance(chars, i + 1, stack)
       ELSE ~r.threw /\ BracketsBalance(chars, i + 1, r.stack)

\* The sources with unbalanced brackets, none of them inside a string or a
\* comment.
Unbalanced(codeLines) == ~BracketsBalance(ParseFedChars(codeLines, 1), 1, <<>>)

\* C27: parse() of a source with unbalanced brackets returns no tree: it
\* throws a CodeParsingError.
C27_UnbalancedBracketsThrow ==
    Unbalanced(sourceLines) =>
        /\ psStatus # "parsed"
        /\ psStatus = "threw" => psError = "CodeParsingError"

\* ------------------------------------------------------------------------
\* Properties of the TypeScriptParser on whole sources
\* ------------------------------------------------------------------------

\* The only child of the TopLevel node n is a FunctionGroups whose children
\* are a multi-line Comments and then a Functions.
IsDocumentedFunction(n) ==
    /\ Len(nodes[n].children) = 1
    /\ LET g == nodes[n].children[1] IN
          /\ nodes[g].kind = "FunctionGroups"
          /\ Len(nodes[g].children) = 2
          /\ nodes[nodes[g].children[1]].kind = "Comments"
          /\ nodes[nodes[g].children[1]].isMultiLine
          /\ nodes[nodes[g].children[2]].kind = "Functions"

\* C25: parse() of the two lines of scenario S3 does not throw, and the
\* TopLevel of the tree it returns has one child, a FunctionGroups with
\* exactly two children in order: a multi-line Comments, then a Functions.
C25_DocCommentBeforeFunction ==
    /\ sourceLines = TSDocumentedFunction => psStatus # "threw"
    /\ Returned(TSDocumentedFunction) => IsDocumentedFunction(1)

\* The same shape for the source of S3 with a space between the braces.
C25_SpacedBracesDocumented ==
    Returned(TSDocumentedFunctionSpaced) => IsDocumentedFunction(1)
\* ------------------------------------------------------------------------
\* Properties of a failed BracesMatcher.next
\* ------------------------------------------------------------------------

\* C38: a next(ch) that throws leaves the matcher as it was: the stack, and
\* with it currentDepth(), is the one before the call, and every later
\* next() returns and throws as it would have without the failed call.
C38_FailedNextLeavesMatcher ==
    [][(BMNextCalled /\ bmThrew') =>
          /\ bmStack' = bmStack
          /\ Len(bmStack') = Len(bmStack)
          /\ \A ch \in BMChars(bmPairs) :
                BMNextResult(bmO2C', bmC2O', bmStack', ch)
                    = BMNextResult(bmO2C, bmC2O, bmStack, ch)]_vars

\* Some calls failed, and the calls that did not fail opened characters and
\* closed every one of them.
C38_Witness ==
    /\ bmState = "ok"
    /\ bmThrows > 0
    /\ ~bmThrew
    /\ bmOpens > 0
    /\ bmCloses = bmOpens
    /\ bmCalls = bmOpens + bmCloses + bmThrows
    /\ Len(bmStack) = 0

\* ------------------------------------------------------------------------
\* Properties of the tokenizer's split directives
\* ------------------------------------------------------------------------

\* The step is a next(ch) on a tokenizer that has not ended, and dir is a
\* directive matchNext may have returned in it.
TKNextWith(ch, dir) ==
    /\ ~ended
    /\ tkLastCall' = "next"
    /\ tkFed' = Append(tkFed, ch)
    /\ IF tkLexer = "ts"
       THEN LET m == TSMatchNext(tsLex, ch, Len(stringBuffer) + 1) IN
            ~m.threw /\ dir = m.dir
       ELSE LET r == ATApplyDirective(ATAppend(TKFields, ch), dir) IN
            /\ tokenString' = r.t.tokenString
            /\ stringBuffer' = r.t.stringBuffer
            /\ tokStartIdx' = r.t.tokStartIdx
            /\ tkThrew' = r.threw

TKDirectives ==
    GenericDirectives \cup
    { Directive(ty, sct, -1) :
        ty \in {"OTHERS", "STRINGS", "BRACES", "SPACINGS", "COMMAS",
                "SINGLELINE_COMMENTS", "MULTILINE_COMMENTS_OR_STRINGS"},
        sct \in {"undefined", "CONTINUATION", "SPACINGS", "BRACES", "COMMAS",
                 "OTHERS"} }

\* numSplitCharacters, 1 when the directive leaves it out.
SplitCharacters(dir) ==
    IF dir.numSplitCharacters = -1 THEN 1 ELSE dir.numSplitCharacters

\* C32: a next(ch) whose directive is {type, singleChType: CONTINUATION,
\* numSplitCharacters: k}, k being 1 when left out, and which does not throw
\* adds exactly one token, of kind type, holding the buffer without its last
\* k characters and ending at charIdx - k, and keeps those last k characters
\* as the buffer of the token that starts at charIdx - k; a directive whose
\* type is CONTINUATION makes next throw and adds no token.
C32_ContinuationSplit ==
    [][\A ch \in TKAlphabet(tkLexer), dir \in TKDirectives \ {NullDirective} :
         TKNextWith(ch, dir) =>
            LET buffer == Append(stringBuffer, ch)
                k == SplitCharacters(dir)
            IN /\ dir.type = "CONTINUATION" =>
                     tkThrew' /\ tokenString' = tokenString
               /\ (dir.type # "CONTINUATION" /\ dir.singleChType = "CONTINUATION"
                     /\ ~tkThrew') =>
                     /\ charIdx' = charIdx + 1
                     /\ tokenString' = Append(tokenString,
                           Token(dir.type, SubSeq(buffer, 1, Len(buffer) - k),
                                 tokStartIdx, charIdx' - k))
                     /\ stringBuffer' = SubSeq(buffer, Len(buffer) - k + 1, Len(buffer))
                     /\ Len(stringBuffer') = k
                     /\ tokStartIdx' = charIdx' - k]_vars

\* A TypeScriptTokenizer fed "a=": the "=" made the lexer answer
\* {OTHERS, CONTINUATION} without numSplitCharacters; "a" went out as a token
\* and "=" stayed behind as the buffer.
C32_Witness ==
    /\ tkLexer = "ts"
    /\ tkFed = <<"a", "=">>
    /\ ~ended /\ ~tkThrew
    /\ tokenString = << Token("OTHERS", <<"a">>, 0, 1) >>
    /\ stringBuffer = <<"=">>
    /\ tokStartIdx = 1 /\ charIdx = 2

\* C37: every token has at least one character; a directive that splits the
\* buffer is accepted exactly when numSplitCharacters is at least 1 and the
\* buffer holds at least numSplitCharacters + 1 characters, a next that
\* throws adds no token, and next(null) on an empty buffer adds no token.
C37_TokensNonEmpty ==
    /\ [](\A i \in 1..Len(tokenString) :
             /\ tokenString[i].start < tokenString[i].end
             /\ tokenString[i].stringContents # <<>>)
    /\ [][\A ch \in TKAlphabet(tkLexer), dir \in TKDirectives \ {NullDirective} :
            (TKNextWith(ch, dir) /\ dir.type # "CONTINUATION"
                /\ dir.singleChType # "undefined") =>
               (~tkThrew' <=> /\ SplitCharacters(dir) >= 1
                              /\ Len(stringBuffer) + 1 >= SplitCharacters(dir) + 1)]_vars
    /\ [][(tkLastCall' \in {"next", "end"} /\ tkThrew') =>
             tokenString' = tokenString]_vars
    /\ [][(tkLastCall' = "end" /\ ~ended /\ stringBuffer = <<>>) =>
             (tokenString' = tokenString /\ ended')]_vars

\* A third character made the lexer split the buffer two characters from its
\* end into an OTHERS and a SPACINGS token, and next(null) then found the
\* buffer empty and added nothing.
C37_Witness ==
    /\ tkLexer = "generic"
    /\ ended /\ ~tkThrew /\ tkLastCall = "end"
    /\ Len(tkFed) = 3
    /\ Len(tokenString) = 2
    /\ tokenString[2].tokenType = "SPACINGS"
    /\ tokenString[2].start = 1 /\ tokenString[2].end = 3
    /\ tokStartIdx = charIdx

\* ------------------------------------------------------------------------
\* Properties of the TypeScript lexer's comments
\* ------------------------------------------------------------------------

\* s begins with the characters of p.
BeginsWith(s, p) == Len(s) >= Len(p) /\ SubSeq(s, 1, Len(p)) = p

\* The step is a next(ch) of a TypeScriptTokenizer that was outside strings,
\* template literals and comments.
TSNextOutside ==
    /\ tkLexer = "ts" /\ ~ended
    /\ tkLastCall' = "next" /\ Len(tkFed') = Len(tkFed) + 1
    /\ tsLex.insideStringStatus \in {"NONE", "EQUALS"}
    /\ ~tsLex.insideSingleLineComments

\* C33: when the lexer meets "/*" outside a string, template literal or
\* comment, the token under construction begins with that "/*", and every
\* MULTILINE_COMMENTS_OR_STRINGS token that is a comment begins with "/*" and,
\* when closed, ends with the first "*/" that starts after the opener.
C33_MultilineCommentToken ==
    /\ [][(TSNextOutside /\ tsLex'.insideStringStatus = "MULTILINE_COMMENTS") =>
             /\ stringBuffer' = <<"/", "*">>
             /\ tokStartIdx' = charIdx' - 2
             /\ tokenString' = tokenString]_vars
    /\ [](tkLexer = "ts" =>
            \A i \in 1..Len(tokenString) :
               LET text == tokenString[i].stringContents IN
               (tokenString[i].tokenType = "MULTILINE_COMMENTS_OR_STRINGS"
                   /\ text[1] # Backtick) =>
                  /\ BeginsWith(text, <<"/", "*">>)
                  /\ \A j \in 3..(Len(text) - 2) :
                        ~(text[j] = "*" /\ text[j + 1] = "/"))

\* C34: when the lexer meets "//" outside a string, template literal or
\* comment, the token under construction begins with that "//", and every
\* SINGLELINE_COMMENTS token begins with "//" and holds no newline.
C34_SingleLineCommentToken ==
    /\ [][(TSNextOutside /\ tsLex'.insideSingleLineComments) =>
             /\ stringBuffer' = <<"/", "/">>
             /\ tokStartIdx' = charIdx' - 2
             /\ tokenString' = tokenString]_vars
    /\ [](tkLexer = "ts" =>
            \A i \in 1..Len(tokenString) :
               LET text == tokenString[i].stringContents IN
               tokenString[i].tokenType = "SINGLELINE_COMMENTS" =>
                  /\ BeginsWith(text, <<"/", "/">>)
                  /\ \A j \in 1..Len(text) : text[j] # "\n")

\* ------------------------------------------------------------------------
\* Properties of the recorded symbol ranges
\* ------------------------------------------------------------------------

\* C39: every symbol the running parseNonTerminal call has recorded covers at
\* least one token, whatever directive passed the checks of
\* updateTokenStreamState.
C39_SymbolsCoverTokens ==
    psStatus = "parsing" =>
        \A i \in 1..Len(frame.symbolRange) :
            frame.symbolRange[i].startTok < frame.symbolRange[i].endTok

\* ------------------------------------------------------------------------
\* PythonParser.preparse on its own
\* ------------------------------------------------------------------------

MaxPreLines == 5       \* most lines of a source handed to preparse

\* The leading spaces the lines are indented with, and the lines: a statement
\* "x" behind no indentation, spaces, a tab or a space and a tab, and a line
\* of spaces only.
PreSpaceCounts == {2, 3, 4, 6, 12}
PreLines ==
    { [i \in 1..n |-> " "] \o <<"x">> : n \in {0} \cup PreSpaceCounts }
    \cup { <<"\t", "x">>, <<" ", "\t", "x">>, <<" ", " ">> }
PreSources == UNION { [1..n -> PreLines] : n \in 1..MaxPreLines }

\* A new PythonParser and the lines parse() is about to hand to preparse.
PreInit ==
    /\ pyd = PythonParser_resetDetectionState(PythonParserNew, 0, "TOP_LEVEL")
    /\ creationInfo = <<>>
    /\ nodeInfo = <<>>
    /\ psCommentBeforeFunction = FALSE
    /\ psVocabulary = {}
    /\ psStatus = "new"
    /\ psError = "none"
    /\ sourceLines \in PreSources
    /\ sourceTokens = <<>>
    /\ positionMap = <<>>
    /\ nodes = <<>>
    /\ frame = NoFrame
    /\ pending = <<>>
    /\ ftMode = "none"
    /\ ftExclude = FALSE
    /\ ftTokens = <<>>
    /\ ftThrew = FALSE
    /\ ftReplace = NoReplace

\* this.preparse(codeLines, this.sourceTokens) of parse(), line 51.
PYPreparse ==
    /\ psStatus = "new"
    /\ LET Done(r) ==
              /\ pyd' = r.d
              /\ psStatus' = IF r.threw THEN "threw" ELSE "prepared"
              /\ psError' = r.error
       IN Done(PythonParser_preparse(pyd, sourceLines))
    /\ UNCHANGED <<creationInfo, nodeInfo, psCommentBeforeFunction, psVocabulary,
                   sourceLines, sourceTokens, positionMap, nodes, frame, pending,
                   ftMode, ftExclude, ftTokens, ftThrew, ftReplace>>

InitPreparse == PreInit /\ EMIdle /\ BMIdle /\ TKIdle /\ TSIdle
NextPreparse == PYPreparse /\ UNCHANGED <<emVars, bmVars, tkVars, tsVars>>
SpecPreparse == InitPreparse /\ [][NextPreparse]_vars

\* ------------------------------------------------------------------------
\* Properties of the indentation PythonParser.preparse detects
\* ------------------------------------------------------------------------

\* The leading run of spaces and tabs of a line.
LeadingBlanks(line) ==
    LET n == Cardinality({ i \in 1..Len(line) :
                 \A j \in 1..i : line[j] \in {" ", "\t"} })
    IN SubSeq(line, 1, n)

\* The lines that hold something other than spaces and tabs and start with a
\* space or a tab, by what their indentation is made of.
IndentedLines(codeLines) ==
    { k \in 1..Len(codeLines) :
        /\ \E i \in 1..Len(codeLines[k]) : codeLines[k][i] \notin {" ", "\t"}
        /\ LeadingBlanks(codeLines[k]) # <<>> }
MadeOf(codeLines, k, ch) ==
    \E i \in 1..Len(LeadingBlanks(codeLines[k])) : codeLines[k][i] = ch
TabLines(codeLines) ==
    { k \in IndentedLines(codeLines) :
        MadeOf(codeLines, k, "\t") /\ ~MadeOf(codeLines, k, " ") }
SpaceLines(codeLines) ==
    { k \in IndentedLines(codeLines) :
        MadeOf(codeLines, k, " ") /\ ~MadeOf(codeLines, k, "\t") }
MixedLines(codeLines) ==
    { k \in IndentedLines(codeLines) :
        MadeOf(codeLines, k, " ") /\ MadeOf(codeLines, k, "\t") }

\* At most 20% of the space-indented lines have a count of leading spaces
\* that is not a multiple of f.
FactorQualifies(codeLines, f) ==
    5 * Cardinality({ k \in SpaceLines(codeLines) :
                        Len(LeadingBlanks(codeLines[k])) % f # 0 })
       <= Cardinality(SpaceLines(codeLines))

IndentFactors == <<12, 6, 4, 3, 2>>

\* C35: for a source with an indented non-blank line, preparse fails with a
\* CodeParsingError when a line mixes tabs and spaces or some lines use tabs
\* and others spaces; otherwise the unit is one tab when lines are indented
\* with tabs, and else as many spaces as the first of 12, 6, 4, 3, 2 that at
\* most 20% of the space-indented lines' counts are not a multiple of, with a
\* CodeParsingError when there is no such factor.
C35_IndentationUnit ==
    (psStatus # "new" /\ IndentedLines(sourceLines) # {}) =>
        LET qualifying == { i \in 1..Len(IndentFactors) :
                               FactorQualifies(sourceLines, IndentFactors[i]) }
            Fails == psStatus = "threw" /\ psError = "CodeParsingError"
            Unit(u, tabs) == /\ psStatus = "prepared"
                             /\ pyd.pythonCodeIndents = u
                             /\ pyd.pythonIsTabs = tabs
        IN IF MixedLines(sourceLines) # {} THEN Fails
           ELSE IF TabLines(sourceLines) # {} /\ SpaceLines(sourceLines) # {} THEN Fails
           ELSE IF TabLines(sourceLines) # {} THEN Unit(<<"\t">>, TRUE)
           ELSE IF qualifying = {} THEN Fails
           ELSE \E i \in qualifying :
                   /\ \A j \in qualifying : i <= j
                   /\ Unit([n \in 1..IndentFactors[i] |-> " "], FALSE)

\* Five lines are indented with spaces, four by a multiple of four and one by
\* three, and the unit detected is four spaces.
C35_Witness ==
    /\ psStatus = "prepared"
    /\ Cardinality(SpaceLines(sourceLines)) = 5
    /\ \E k \in SpaceLines(sourceLines) : Len(LeadingBlanks(sourceLines[k])) = 3
    /\ pyd.pythonCodeIndents = <<" ", " ", " ", " ">>

\* C36: for a source in which no non-blank line starts with a space or a tab,
\* preparse returns without an error and the indentation unit is the empty
\* string.
C36_NoIndentation ==
    (psStatus # "new" /\ IndentedLines(sourceLines) = {}) =>
        /\ psStatus = "prepared"
        /\ pyd.pythonCodeIndents = <<>>

\* ------------------------------------------------------------------------
\* Properties of the order of the detector calls
\* ------------------------------------------------------------------------

\* The parseNonTerminal call a frame belongs to.
FrameCall(f) == <<f.nonTerminal, f.parent, f.startTok, f.endTok, f.depth>>

\* The running parseNonTerminal call has created its nodes: it is about to
\* attach them and to start the next call.
FrameDone == frame.concluded /\ Len(frame.childNodes) = Len(frame.state)

\* C31: a parseNonTerminal call over the tokens [s, e) that runs to its end
\* starts with its detection state reset and nothing detected, then calls its
\* detector with the tokens s, s+1, ..., e-1 in this order, one per step, and
\* then once with null; until that null call no other parseNonTerminal call
\* starts, and an exception is the only other way the call is left.
C31_DetectorCallOrder ==
    /\ [](psStatus = "parsing" =>
            /\ frame.startTok <= frame.currentTokIndex
            /\ frame.currentTokIndex <= frame.endTok
            /\ frame.concluded => frame.currentTokIndex = frame.endTok
            /\ ~frame.concluded =>
                  /\ frame.parsedEndTokIndex + Len(frame.tokenBuffer)
                        = frame.currentTokIndex
                  /\ \A i \in 1..Len(frame.tokenBuffer) :
                        frame.tokenBuffer[i] = frame.parsedEndTokIndex + i - 1)
    /\ [][(psStatus' = "parsing" /\ frame' # frame) =>
             IF psStatus # "parsing" \/ FrameDone
             THEN /\ frame'.currentTokIndex = frame'.startTok
                  /\ frame'.parsedEndTokIndex = frame'.startTok
                  /\ frame'.state = <<>> /\ frame'.tokenBuffer = <<>>
                  /\ ~frame'.concluded
                  /\ FrameDone => frame'.depth > 0
             ELSE /\ FrameCall(frame') = FrameCall(frame)
                  /\ pending' = pending
                  /\ IF frame.concluded
                     THEN frame'.concluded
                          /\ frame'.currentTokIndex = frame.currentTokIndex
                     ELSE IF frame.currentTokIndex < frame.endTok
                     THEN ~frame'.concluded
                          /\ frame'.currentTokIndex = frame.currentTokIndex + 1
                     ELSE frame'.concluded
                          /\ frame'.currentTokIndex = frame.currentTokIndex]_vars
    /\ [][(psStatus = "parsing" /\ ~FrameDone /\ psStatus' # "parsing") =>
             psStatus' = "threw"]_vars

\* A parseNonTerminal call below the top level, over two tokens, has had its
\* null call.
C31_Witness ==
    /\ psStatus = "parsing"
    /\ frame.depth = 1
    /\ frame.endTok - frame.startTok = 2
    /\ frame.concluded
    /\ Len(frame.state) = 2

\* ------------------------------------------------------------------------
\* Properties of the bracket matching of the TypeScriptParser
\* ------------------------------------------------------------------------

\* The stack of a matcher of (), [] and {} after the BRACES tokens from i on,
\* <<"unbalanced">> when one of them closes what is not open.
RECURSIVE BracketStack(_, _, _)
BracketStack(tokens, i, stack) ==
    IF i > Len(tokens) THEN stack
    ELSE IF tokens[i].tokenType # "BRACES" THEN BracketStack(tokens, i + 1, stack)
    ELSE LET Fed(r) == IF r.threw THEN <<"unbalanced">>
                       ELSE BracketStack(tokens, i + 1, r.stack)
         IN Fed(BMNextResult(BMCtor(BMStandard).o2c, BMCtor(BMStandard).c2o, stack,
                             tokens[i].stringContents[1]))

\* The brackets outside strings and comments are balanced and properly nested.
BracketsBalanced(tokens) == BracketStack(tokens, 1, <<>>) = <<>>

\* The detector call about to be made hands a bracket to the bracesMatcher of
\* the parser, which rejects it.
TSBracketRejected ==
    /\ psStatus = "parsing" /\ ~frame.concluded
    /\ frame.currentTokIndex < frame.endTok
    /\ frame.nonTerminal \in {"TOP_LEVEL", "CLASSES"}
    /\ LET token == sourceTokens[frame.currentTokIndex + 1] IN
       /\ token.tokenType = "BRACES"
       /\ BMNextResult(BMCtor(BMStandard).o2c, BMCtor(BMStandard).c2o,
                       tsd.bracesMatcher, token.stringContents[1]).threw

\* C40: while a source whose (), [] and {} are balanced and properly nested
\* outside strings and comments is parsed, no bracket is rejected by the
\* bracesMatcher and the parse does not end with the CodeParsingError of the
\* brace matching.
C40_BalancedBracketsAccepted ==
    [][(BracketsBalanced(sourceTokens) /\ TSBracketRejected) =>
          ~(psStatus' = "threw" /\ psError' = "CodeParsingError")]_vars

====
